---- MODULE Spec2Model ----
(***************************************************************************)
(* Bootstrap workflow (environment setup + project bootstrap) and the      *)
(* CLAUDE.md merge with preserved user sections, as laid down in the       *)
(* bootstrap procedures of the repository.                                 *)
(***************************************************************************)
EXTENDS Integers, Sequences, FiniteSets, TLC

(***************************************************************************)
(* Bounds of the model.                                                    *)
(***************************************************************************)
MaxRuns == 2

MaxFaults == 2

(***************************************************************************)
(* The fixed, ordered step list.  Steps 1..3 are the environment-setup     *)
(* procedures, steps 4..8 the project-bootstrap procedures.                *)
(***************************************************************************)
StepNames ==
    << "serena_mcp", "mcp_servers", "agents_notified",
       "analyze", "generate-claude-md", "generate-docs", "setup-adrs", "verify" >>

NumSteps == Len(StepNames)

EnvSteps == 1..3

ProjectSteps == 4..NumSteps

Modes == {"environment", "project", "both"}

Status == {"pending", "completed", "skipped", "failed"}

Outcomes == {"completed", "skipped", "failed"}

VARIABLES
    pc,             \* "idle" | "running" | "halted" | "done"
    mode,           \* mode of the current run
    update,         \* TRUE when the current run is an update/reinstall pass
    stateWritable,  \* FALSE when environment-state.json cannot be written in this run
    cur,            \* the step the run has advanced to
    running,        \* steps whose procedure is being executed right now
    executed,       \* steps whose procedure was started in this run, in start order
    status,         \* step statuses as the running bootstrap holds them
    disk,           \* step statuses as recorded in environment-state.json / manifest.json
    envDone,        \* the environment phase of this run has saved its state and returned
    failedNow,      \* steps whose procedure failed in this run
    startStatus,    \* the recorded statuses the run started from
    runs,           \* number of runs started so far
    faults,         \* number of skipped/failed outcomes so far
    reports,        \* the reports shown to the user in this run, in order
    prev,           \* TRUE when the run before this one was a full workflow run that reached its end
    fileExists,     \* CLAUDE.md exists in the project root
    file,           \* content of CLAUDE.md (a sequence of tokens)
    newContent,     \* the content generated from the template
    existingExists, \* CLAUDE.md existed before the first generation
    existing,       \* content of CLAUDE.md before the first generation
    firstOutput,    \* content of CLAUDE.md after the first generation
    merges,         \* number of generations performed
    mergeOk,        \* the last generation merged and wrote the file
    warnings,       \* user sections the last generation had to re-add at the end
    dest,           \* the destination files of a generation step: existence and content
    destBefore,     \* the destination files as the generation step found them
    rendered,       \* the content rendered for each destination file
    fileResult,     \* per destination file: "pending" | "merged" | "failed"
    results,        \* what each discovery source yields: "none" | "error" | a value
    detIdx,         \* progress of the analysis: 0 not begun, 1..n sources, then save
    store,          \* analysis results: per key the value, confidence and source
    findings,       \* discovery sources whose failure was noted in the analysis
    detDone,        \* discovery sources that have been checked
    dirFails,       \* how many attempts to create the bootstrap directory fail
    bootDir,        \* the bootstrap directory in use
    tree,           \* the files and directories of the target project
    treeBefore,     \* the target project as the analysis found it
    hook,           \* the hook script that was started
    hpc,            \* the hook script: "off" | "reading" | "returned"
    stdinBytes,     \* the bytes the hook script is sent on stdin
    wire,           \* the bytes of stdin not yet delivered to the script
    data,           \* the script's variable data: the characters read so far
    path,           \* the path the end handler took through its try block
    stdout,         \* the writes of the script to stdout, each a sequence of bytes
    docs,           \* documentation files of the project: content, or NoFile
    docsBefore,     \* the documentation files as the last procedure found them
    docStep,        \* the documentation procedure executed last, with the path it took
    docRuns,        \* number of documentation procedures executed so far
    cancelRequested,  \* a cancellation of the current run has been requested
    executedAtCancel, \* how many steps the run had started when cancellation was requested
    resumed,        \* the current run was started after a cancelled run
    manifest,       \* manifest.json on disk: readable or not, and the statuses it records
    memory,         \* the statuses of the project steps as the running bootstrap holds them
    mpc,            \* "off" | "ready" | "step" | "towrite" | "writing" | "interrupted" | "finished"
    mcur,           \* the project step the run is at
    finished,       \* project steps whose procedure ran to its end since the manifest was created
    prevFinished,   \* the same, when the current run started
    reexecuted,     \* steps of prevFinished that the current run has started again
    fromCorrupted,  \* the current run started from a corrupted manifest
    mruns,          \* number of runs started over this manifest
    tmpl,           \* the template being customized, a sequence of tokens
    analysis,       \* the values of analysis.json the template refers to
    claudeMd,       \* the customized content
    logSummary,     \* the log summary of the generation: per command its origin
    rpc,            \* "off" | "loaded" | "customized" | "logged"
    vfiles,         \* the generated files as the verification finds them
    vfailed,        \* the verification checks that have failed
    vresult,        \* the verification record written to the manifest
    vreport,        \* the failures listed to the user
    vpc,            \* "off" | "files" | "content" | "manifest" | "report" | "reported"
    backup,         \* CLAUDE.md.backup
    backupChecks,   \* number of times step 1 has looked for an existing CLAUDE.md
    ldir,           \* TRUE when the directory ai-docs exists
    lfile,          \* ai-docs/learnings.md: whether it exists, and its lines
    lfileBefore,    \* learnings.md before the hooks ran
    lpc,            \* per run of the session-end hook: "off" | "start" | "ensure" | "read" | "write" | "done"
    linput,         \* per run: what stdin held: "invalid-json" | "no-signal" | "signal"
    lexisting,      \* per run: the content readExisting returned
    lwrote,         \* the runs of the session-end hook that have written the file
    loaderOut,      \* the entries the session-start loader has written to stderr
    loaderPc,       \* "off" | "ready" | "done"
    envStateFile,   \* .state/environment-state.json: whether it exists, the components it records
    projManifest,   \* .claude-bootstrap/manifest.json: whether it exists, the steps it records
    detectedMode,   \* the mode the decision matrix gives, "none" before the detection
    selectedMode,   \* the mode the entry point runs, "none" before the selection
    entryPc,        \* where the entry point is
    completedAt     \* completed_at of the project manifest: FALSE for null, TRUE for a time

wfVars == << pc, mode, update, stateWritable, cur, running, executed, status, disk,
             envDone, failedNow, startStatus, runs, faults, reports, prev >>

mergeVars == << fileExists, file, newContent, existingExists, existing, firstOutput,
                merges, mergeOk, warnings >>

genVars == << dest, destBefore, rendered, fileResult >>

factVars == << results, detIdx, store, findings, detDone, dirFails, bootDir, tree, treeBefore >>

hookVars == << hook, hpc, stdinBytes, wire, data, path, stdout >>

docVars == << docs, docsBefore, docStep, docRuns >>

cancelVars == << cancelRequested, executedAtCancel, resumed >>

manifestVars == << manifest, memory, mpc, mcur, finished, prevFinished, reexecuted,
                  fromCorrupted, mruns >>

renderVars == << tmpl, analysis, claudeMd, logSummary, rpc >>

verifyVars == << vfiles, vfailed, vresult, vreport, vpc >>

backupVars == << backup, backupChecks >>

learnVars == << ldir, lfile, lfileBefore, lpc, linput, lexisting, lwrote, loaderOut, loaderPc >>

entryVars == << envStateFile, projManifest, detectedMode, selectedMode, entryPc >>

completionVars == << completedAt >>

vars == << wfVars, mergeVars, genVars, factVars, hookVars, docVars, cancelVars, manifestVars,
          renderVars,
          verifyVars,
          backupVars,
          learnVars,
          entryVars,
          completionVars >>

Range(s) == { s[k] : k \in 1..Len(s) }

(***************************************************************************)
(* Static declarations.                                                    *)
(***************************************************************************)
Blocking(i) == i \in ProjectSteps

RunSteps(m) ==
    CASE m = "environment" -> EnvSteps
      [] m = "project"     -> ProjectSteps
      [] OTHER             -> 1..NumSteps

FirstStep(m) == IF m = "project" THEN 4 ELSE 1

LastStep(m) == IF m = "environment" THEN 3 ELSE NumSteps

(***************************************************************************)
(* The destination files one generation step works on.                     *)
(***************************************************************************)
GenFiles == {"CLAUDE.md", "claude-docs/README.md"}

NoFile == [exists |-> FALSE, content |-> << >>]

\* no generation step has touched the destination files
GenIdle ==
    /\ dest = [ f \in GenFiles |-> NoFile ]
    /\ destBefore = dest
    /\ rendered = [ f \in GenFiles |-> << >> ]
    /\ fileResult = [ f \in GenFiles |-> "pending" ]

(***************************************************************************)
(* Project analysis: the discovery sources in the order the procedure      *)
(* checks them, the keys each can fill and the confidence it carries.      *)
(***************************************************************************)
Detectors == << "README.md", "package.json", "Cargo.toml", "inference", "language-defaults" >>

NumDetectors == Len(Detectors)

FactKeys == {"project_purpose", "commands.test"}

DetKeys(d) ==
    CASE Detectors[d] = "README.md"         -> {"project_purpose"}
      [] Detectors[d] = "package.json"      -> {"project_purpose", "commands.test"}
      [] Detectors[d] = "Cargo.toml"        -> {"project_purpose", "commands.test"}
      [] Detectors[d] = "inference"         -> {"project_purpose"}
      [] OTHER                              -> {"commands.test"}

DetConfidence(d) ==
    CASE Detectors[d] = "README.md"         -> "medium"
      [] Detectors[d] = "package.json"      -> "high"
      [] Detectors[d] = "Cargo.toml"        -> "high"
      [] Detectors[d] = "inference"         -> "low"
      [] OTHER                              -> "default"

Values == {"v1", "v2"}

NoFact == [value |-> "null", confidence |-> "none", source |-> 0]

\* the directories the bootstrap state may live in, in the order they are tried
BootDirs == << ".claude-bootstrap", ".claude/bootstrap" >>

BootNames == {"", "analysis.json", "manifest.json"}

\* <<directory, name>>; the name "" stands for the directory itself
Paths ==
    ({"."} \X {"README.md", "package.json", "analysis.json", "manifest.json"})
        \cup (Range(BootDirs) \X BootNames)

\* no analysis has begun
FactIdle ==
    /\ results = [ d \in 1..NumDetectors |-> "none" ]
    /\ detIdx = 0
    /\ store = [ k \in FactKeys |-> NoFact ]
    /\ findings = {}
    /\ detDone = {}
    /\ dirFails = 0
    /\ bootDir = ""
    /\ tree = [ p \in Paths |-> "absent" ]
    /\ treeBefore = tree

(***************************************************************************)
(* A manifest truncated to K completed steps.                              *)
(***************************************************************************)
Truncated(K) == [ i \in 1..NumSteps |-> IF i <= K THEN "completed" ELSE "pending" ]

(***************************************************************************)
(* The hook scripts.  Each reads stdin to its end, does its work inside a  *)
(* try block and passes its input on with console.log.                     *)
(***************************************************************************)
Hooks == { "session-end-summary", "session-start-loader", "check-debug-statements",
           "post-edit-format", "debug-warning" }

\* the ways through the try block of each script's end handler
HookPaths(h) ==
    CASE h = "session-end-summary"    -> {"invalid-json", "no-learnings", "written", "fs-error"}
      [] h = "session-start-loader"   -> {"no-file", "no-entries", "loaded", "fs-error"}
      [] h = "check-debug-statements" -> {"git-error", "no-modified", "clean", "issues"}
      [] h = "post-edit-format"       -> {"invalid-json", "no-formatter", "formatted",
                                          "formatter-error"}
      [] OTHER                        -> {"invalid-json", "clean", "issues"}

\* characters of the input and their UTF-8 bytes: "a" is 61, "e-acute" is C3 A9,
\* the replacement character U+FFFD is EF BF BD
Chars == {"a", "e-acute"}

EncodeChar(c) ==
    CASE c = "a" -> << "61" >>
      [] c = "e-acute" -> << "C3", "A9" >>
      [] OTHER   -> << "EF", "BF", "BD" >>

RECURSIVE Encode(_)
Encode(cs) == IF cs = << >> THEN << >> ELSE EncodeChar(Head(cs)) \o Encode(Tail(cs))

\* chunk => data += chunk: the chunk is a Buffer, converted to a string on
\* its own; bytes that are no complete character become U+FFFD
RECURSIVE DecodeChunk(_)
DecodeChunk(b) ==
    IF b = << >> THEN << >>
    ELSE IF Head(b) = "61" THEN << "a" >> \o DecodeChunk(Tail(b))
    ELSE IF Head(b) = "C3" /\ Len(b) >= 2 /\ b[2] = "A9"
         THEN << "e-acute" >> \o DecodeChunk(Tail(Tail(b)))
    ELSE << "U+FFFD" >> \o DecodeChunk(Tail(b))

\* console.log(d): the string as UTF-8 bytes, followed by a newline
ConsoleLog(d) == Encode(d) \o << "0A" >>

HookIdle ==
    /\ hook = "none"
    /\ hpc = "off"
    /\ stdinBytes = << >>
    /\ wire = << >>
    /\ data = << >>
    /\ path = "none"
    /\ stdout = << >>

(***************************************************************************)
(* The documentation files: the standard guides, in claude-docs/ or in the *)
(* documentation directory the project already has, the index of the       *)
(* guides, and the two files of the ADR structure.                         *)
(***************************************************************************)
Guides == {"tdd-enforcement.md", "security.md"}

NewDocsDir == "claude-docs"

ExistingDocsDir == "docs/ai-includes"

AdrDir == "docs/adrs"

GuideFiles == {NewDocsDir, ExistingDocsDir} \X Guides

IndexFile == << NewDocsDir, "README.md" >>

AdrFiles == { << AdrDir, "README.md" >>, << AdrDir, "000-template.md" >> }

DocFiles == GuideFiles \cup {IndexFile} \cup AdrFiles

\* the gap of the analysis that concerns a guide
GapOf(g) == IF g = "tdd-enforcement.md" THEN "hypothesis_tdd" ELSE "security"

Gaps == { GapOf(g) : g \in Guides }

\* content as a sequence of sections
Template(f) ==
    IF f[2] = "tdd-enforcement.md" THEN << "template", "hypothesis" >> ELSE << "template" >>

UserContent == << "user" >>

DocIdle ==
    /\ docs = [ f \in DocFiles |-> NoFile ]
    /\ docsBefore = docs
    /\ docStep = "none"
    /\ docRuns = 0

CancelIdle ==
    /\ cancelRequested = FALSE
    /\ executedAtCancel = 0
    /\ resumed = FALSE

\* no run over the project manifest is being followed
NoManifest == [ i \in ProjectSteps |-> "pending" ]

\* a manifest file that holds a complete version
Complete(st) == [readable |-> TRUE, st |-> st]

\* a manifest file that holds a part of a version
Corrupted == [readable |-> FALSE, st |-> NoManifest]

ManifestIdle ==
    /\ manifest = Complete(NoManifest)
    /\ memory = NoManifest
    /\ mpc = "off"
    /\ mcur = 4
    /\ finished = {}
    /\ prevFinished = {}
    /\ reexecuted = {}
    /\ fromCorrupted = FALSE
    /\ mruns = 0

\* the values a template can refer to: not determined, false, or a value
AnalysisValues == {"null", "false", "run-tests"}

\* no template is being customized
RenderIdle ==
    /\ tmpl = << >>
    /\ analysis = [ k \in FactKeys |-> "null" ]
    /\ claudeMd = << >>
    /\ logSummary = [ k \in {"commands.test"} |-> "none" ]
    /\ rpc = "off"

\* the files the generation steps of a run produce
GeneratedFiles ==
    { "CLAUDE.md", "claude-docs/README.md", "claude-docs/tdd-enforcement.md",
      "claude-docs/security.md", "docs/adrs/README.md" }

\* the files the verification procedure looks for
CheckedFiles ==
    { "CLAUDE.md", "claude-docs/README.md", "claude-docs/tdd-enforcement.md",
      "docs/adrs/README.md" }

\* a file is missing, empty, holds text, or holds text with an unresolved {{placeholder}}
FileStates == {"missing", "empty", "text", "placeholder"}

NoVerification == [files_created |-> "none", claude_md_valid |-> "none"]

\* no verification is under way
VerifyIdle ==
    /\ vfiles = [ f \in GeneratedFiles |-> "missing" ]
    /\ vfailed = {}
    /\ vresult = NoVerification
    /\ vreport = {}
    /\ vpc = "off"

\* no backup has been taken
BackupIdle ==
    /\ backup = NoFile
    /\ backupChecks = 0

\* the runs of the session-end hook that may overlap
Procs == {1, 2}

NoLearnings == [exists |-> FALSE, lines |-> << >>]

\* no hook touches the learnings file
LearnIdle ==
    /\ ldir = FALSE
    /\ lfile = NoLearnings
    /\ lfileBefore = lfile
    /\ lpc = [ p \in Procs |-> "off" ]
    /\ linput = [ p \in Procs |-> "no-signal" ]
    /\ lexisting = [ p \in Procs |-> << >> ]
    /\ lwrote = {}
    /\ loaderOut = << >>
    /\ loaderPc = "off"

\* the entry point is not being followed
EntryIdle ==
    /\ envStateFile = [exists |-> FALSE, components |-> {}]
    /\ projManifest = [exists |-> FALSE, steps |-> 0]
    /\ detectedMode = "none"
    /\ selectedMode = "none"
    /\ entryPc = "off"

\* the manifest found at the start has completed_at set when it records the
\* verification as completed
CompletionRecorded ==
    /\ completedAt = (disk[NumSteps] = "completed")

NoRun == FALSE

\* the run that is over was a run of the full workflow that reached its end
FullRunEnded == pc = "done" /\ mode = "both"

Init ==
    /\ pc = "idle"
    /\ mode = "both"
    /\ update = FALSE
    /\ stateWritable = TRUE
    /\ cur = 1
    /\ running = {}
    /\ executed = << >>
    /\ \E K \in 0..NumSteps : disk = Truncated(K)
    /\ status = disk
    /\ envDone = FALSE
    /\ failedNow = {}
    /\ startStatus = disk
    /\ runs = 0
    /\ faults = 0
    /\ reports = << >>
    /\ prev = NoRun
    /\ fileExists = FALSE
    /\ file = << >>
    /\ newContent = << >>
    /\ existingExists = FALSE
    /\ existing = << >>
    /\ firstOutput = << >>
    /\ merges = 0
    /\ mergeOk = TRUE
    /\ warnings = {}
    /\ GenIdle
    /\ FactIdle
    /\ HookIdle
    /\ DocIdle
    /\ CancelIdle
    /\ CompletionRecorded
    /\ EntryIdle
    /\ LearnIdle
    /\ BackupIdle
    /\ VerifyIdle
    /\ ManifestIdle
    /\ RenderIdle

(***************************************************************************)
(* Run start: read the state files, pick the mode.                         *)
(***************************************************************************)
LoadDemotingFailed(d) == [ i \in 1..NumSteps |-> IF d[i] = "failed" THEN "pending" ELSE d[i] ]

LoadState(d) == d

StartRun(m, upd, writable) ==
    /\ pc \in {"idle", "halted", "done", "verified", "cancelled"}
    /\ runs < MaxRuns
    /\ writable = FALSE => faults < MaxFaults
    /\ pc' = "running"
    /\ cancelRequested' = FALSE
    /\ executedAtCancel' = 0
    /\ resumed' = (pc = "cancelled")
    /\ reports' = << >>
    /\ prev' = FullRunEnded
    /\ mode' = m
    /\ update' = upd
    /\ stateWritable' = writable
    /\ cur' = FirstStep(m)
    /\ running' = {}
    /\ executed' = << >>
    /\ status' = LoadState(disk)
    /\ startStatus' = disk
    /\ envDone' = FALSE
    /\ failedNow' = {}
    /\ runs' = runs + 1
    /\ faults' = IF writable THEN faults ELSE faults + 1
    /\ UNCHANGED << disk, mergeVars, genVars, hookVars, docVars, factVars, manifestVars, completionVars, entryVars, learnVars, backupVars, verifyVars, renderVars >>

(***************************************************************************)
(* Skip on resume: a step recorded as completed is not executed again.     *)
(***************************************************************************)
ShouldExecuteAlways(i) == TRUE

ShouldExecute(i) == update \/ status[i] # "completed"

MayStartNoWait(i) == i \notin Range(executed)

MayStart(i) ==
    /\ running = {}
    /\ i = cur
    /\ (mode = "both" /\ i \in ProjectSteps) => envDone

SkipCompleted ==
    /\ pc = "running"
    /\ running = {}
    /\ cur \in RunSteps(mode)
    /\ (mode = "both" /\ cur \in ProjectSteps) => envDone
    /\ ~ShouldExecute(cur)
    /\ cur' = cur + 1
    /\ UNCHANGED << pc, mode, update, stateWritable, running, executed, status, disk,
                    envDone, failedNow, startStatus, runs, faults, reports, prev,
                    mergeVars, genVars, hookVars, docVars, cancelVars, completionVars, entryVars, learnVars, backupVars, verifyVars, manifestVars, renderVars, factVars >>

ExecuteStep(i) ==
    /\ pc = "running"
    /\ i \in RunSteps(mode)
    /\ MayStart(i)
    /\ ShouldExecute(i)
    /\ running' = running \cup {i}
    /\ executed' = Append(executed, i)
    /\ UNCHANGED << pc, mode, update, stateWritable, cur, status, disk,
                    envDone, failedNow, startStatus, runs, faults, reports, prev,
                    mergeVars, genVars, hookVars, docVars, cancelVars, completionVars, entryVars, learnVars, backupVars, verifyVars, manifestVars, renderVars, factVars >>

(***************************************************************************)
(* Failure policy and persistence.                                         *)
(***************************************************************************)
\* stop and report the issue
FailureReport(i) == [kind |-> "failure", about |-> {i}]

HaltsNever(i, outcome) == FALSE

HaltsAlways(i, outcome) == outcome = "failed"

Halts(i, outcome) == outcome = "failed" /\ Blocking(i)

WriteNothing(i, st) == disk

Write(i, st) ==
    IF i \in EnvSteps
    THEN IF stateWritable
         THEN [ j \in 1..NumSteps |-> IF j \in EnvSteps THEN st[j] ELSE disk[j] ]
         ELSE disk
    ELSE [ j \in 1..NumSteps |-> IF j \in ProjectSteps THEN st[j] ELSE disk[j] ]

\* a manifest that gets the time of completion with every completed step
CompletedAtEveryStep(i, outcome, was) == outcome = "completed"

\* completed_at after step i has ended: Initialize Manifest, the last step of
\* the analysis, writes null; Update Manifest of the verification writes the time
CompletedAt(i, outcome, was) ==
    IF outcome # "completed"
    THEN was
    ELSE IF i = FirstStep("project")
         THEN FALSE
         ELSE IF i = LastStep("project") THEN TRUE ELSE was

EndStep(i, outcome) ==
    /\ pc \in {"running"}
    /\ i \in running
    /\ outcome # "completed" => faults < MaxFaults
    /\ LET st == [status EXCEPT ![i] = outcome]
       IN  /\ status' = st
           /\ disk' = Write(i, st)
    /\ running' = running \ {i}
    /\ completedAt' = CompletedAt(i, outcome, completedAt)
    /\ failedNow' = IF outcome = "failed" THEN failedNow \cup {i} ELSE failedNow
    /\ faults' = IF outcome = "completed" THEN faults ELSE faults + 1
    /\ IF Halts(i, outcome)
       THEN pc' = "halted" /\ cur' = cur /\ reports' = Append(reports, FailureReport(i))
       ELSE pc' = pc /\ cur' = (IF i >= cur THEN i + 1 ELSE cur) /\ reports' = reports
    /\ UNCHANGED << mode, update, stateWritable, executed, envDone, startStatus, runs, prev,
                    mergeVars, genVars, hookVars, docVars, cancelVars, entryVars, learnVars, backupVars, verifyVars, manifestVars, renderVars, factVars >>

(***************************************************************************)
(* End of the environment phase: save state, return to the entry point.    *)
(***************************************************************************)
AlreadyCompleteOrSkipped ==
    ~update /\ \A i \in EnvSteps : startStatus[i] \in {"completed", "skipped"}

\* all components were installed already and no reinstall or update was asked for
AlreadyComplete == ~update /\ \A i \in EnvSteps : startStatus[i] = "completed"

\* the summary of the environment setup
EnvironmentReport ==
    [kind |-> IF AlreadyComplete THEN "already-complete" ELSE "environment", about |-> EnvSteps]

SaveState ==
    /\ pc = "running"
    /\ mode \in {"environment", "both"}
    /\ running = {}
    /\ cur = 4
    /\ ~envDone
    /\ envDone' = TRUE
    /\ disk' = Write(1, status)
    /\ reports' = Append(reports, EnvironmentReport)
    /\ UNCHANGED << pc, mode, update, stateWritable, cur, running, executed, status,
                    failedNow, startStatus, runs, faults, prev, mergeVars, genVars, hookVars, docVars, cancelVars, completionVars, entryVars, learnVars, backupVars, verifyVars, manifestVars, renderVars, factVars >>

FinalReportsNone(m) == << >>

\* what is presented when the selected mode has been executed: the environment
\* summary was shown when the environment setup ended
FinalReports(m) ==
    CASE m = "environment" -> << >>
      [] m = "project"     -> << [kind |-> "project", about |-> ProjectSteps] >>
      [] OTHER             -> << [kind |-> "combined", about |-> 1..NumSteps] >>

FinishRun ==
    /\ pc = "running"
    /\ running = {}
    /\ cur > LastStep(mode)
    /\ mode \in {"environment", "both"} => envDone
    /\ pc' = "done"
    /\ reports' = reports \o FinalReports(mode)
    /\ UNCHANGED << mode, update, stateWritable, cur, running, executed, status, disk,
                    envDone, failedNow, startStatus, runs, faults, prev,
                    mergeVars, genVars, hookVars, docVars, cancelVars, completionVars, entryVars, learnVars, backupVars, verifyVars, manifestVars, renderVars, factVars >>

\* what verify mode does to the state files
VerifyRecording(d) == [d EXCEPT ![NumSteps] = "completed"]

VerifyReading(d) == d

\* mode verify: read the state files, test, display the status, change nothing
VerifyStatus ==
    /\ pc \in {"idle", "halted", "done", "verified"}
    /\ pc' = "verified"
    /\ mode' = "verify"
    /\ update' = FALSE
    /\ running' = {}
    /\ executed' = << >>
    /\ status' = LoadState(disk)
    /\ startStatus' = disk
    /\ envDone' = FALSE
    /\ failedNow' = {}
    /\ cur' = FirstStep("verify")
    /\ reports' = << [kind |-> "status", about |-> 1..NumSteps] >>
    /\ prev' = FullRunEnded
    /\ disk' = VerifyReading(disk)
    /\ UNCHANGED << stateWritable, runs, faults, mergeVars, genVars, hookVars, docVars, cancelVars, completionVars, entryVars, learnVars, backupVars, verifyVars, manifestVars, renderVars, factVars >>

Next ==
    \/ \E m \in Modes, upd \in BOOLEAN, w \in BOOLEAN : StartRun(m, upd, w)
    \/ VerifyStatus
    \/ SkipCompleted
    \/ \E i \in 1..NumSteps : ExecuteStep(i)
    \/ \E i \in 1..NumSteps, o \in Outcomes : EndStep(i, o)
    \/ SaveState
    \/ FinishRun

Spec == Init /\ [][Next]_vars

(***************************************************************************)
(* One run of the workflow under its scheduling: the procedures are        *)
(* executed in autopilot, one after the other without waiting for a        *)
(* confirmation, and a procedure that was started comes to an end.  The    *)
(* run starts from any state an earlier run may have recorded: a prefix of *)
(* completed steps, possibly with an environment step that failed or was   *)
(* skipped, a project step that was skipped, or the project step that      *)
(* failed and halted the earlier run.                                      *)
(***************************************************************************)
RecordedStates ==
    { Truncated(K) : K \in 0..NumSteps } \cup
    { [Truncated(K) EXCEPT ![j] = s] :
        <<K, j, s>> \in { t \in (0..NumSteps) \X (1..NumSteps) \X {"failed", "skipped"} :
                            \/ t[2] \in EnvSteps
                            \/ t[3] = "skipped" /\ t[2] <= t[1]
                            \/ t[3] = "failed" /\ t[2] = t[1] + 1 } }

InitFair ==
    /\ pc = "idle"
    /\ mode = "both"
    /\ update = FALSE
    /\ stateWritable = TRUE
    /\ cur = 1
    /\ running = {}
    /\ executed = << >>
    /\ disk \in RecordedStates
    /\ status = disk
    /\ envDone = FALSE
    /\ failedNow = {}
    /\ startStatus = disk
    /\ runs = 0
    /\ faults = 0
    /\ reports = << >>
    /\ prev = NoRun
    /\ fileExists = FALSE
    /\ file = << >>
    /\ newContent = << >>
    /\ existingExists = FALSE
    /\ existing = << >>
    /\ firstOutput = << >>
    /\ merges = 0
    /\ mergeOk = TRUE
    /\ warnings = {}
    /\ GenIdle
    /\ FactIdle
    /\ HookIdle
    /\ DocIdle
    /\ CancelIdle
    /\ CompletionRecorded
    /\ EntryIdle
    /\ LearnIdle
    /\ BackupIdle
    /\ VerifyIdle
    /\ ManifestIdle
    /\ RenderIdle

StartOneRun(m, upd, writable) == pc = "idle" /\ StartRun(m, upd, writable)

EndSomeStep == \E i \in 1..NumSteps, o \in Outcomes : EndStep(i, o)

Autopilot ==
    \/ SkipCompleted
    \/ \E i \in 1..NumSteps : ExecuteStep(i)
    \/ SaveState
    \/ FinishRun

NextFair ==
    \/ \E m \in Modes, upd \in BOOLEAN, w \in BOOLEAN : StartOneRun(m, upd, w)
    \/ SkipCompleted
    \/ \E i \in 1..NumSteps : ExecuteStep(i)
    \/ \E i \in 1..NumSteps, o \in Outcomes : EndStep(i, o)
    \/ SaveState
    \/ FinishRun

Fairness == WF_vars(Autopilot) /\ WF_vars(EndSomeStep)

SpecFair == InitFair /\ [][NextFair]_vars /\ Fairness

(***************************************************************************)
(* CLAUDE.md generation: merge of the generated content into an existing   *)
(* file, preserving the user sections between start/end markers.           *)
(*                                                                         *)
(* A file is a sequence of tokens: <<"text", c>> is a piece of text,       *)
(* <<"start", n>> and <<"end", n>> are the markers of user section n.      *)
(***************************************************************************)
MaxExistingLen == 5

MaxNewLen == 3

MaxMalformedLen == 2

MaxMerges == 2

RegionNames == {"CUSTOM_RULES", "PROJECT_NOTES"}

TextTokens == {"a", "b"}

Tokens == ({"text"} \X TextTokens) \cup ({"start", "end"} \X RegionNames)

DocsUpTo(len) == UNION { [1..n -> Tokens] : n \in 0..len }

IsMarker(t) == t[1] # "text"

Positions(doc, t) == { k \in 1..Len(doc) : doc[k] = t }

\* the markers of every section are a matched pair, each name occurs at most
\* once, and no marker stands inside a section
WellFormed(doc) ==
    \A n \in RegionNames :
        LET s == Positions(doc, <<"start", n>>)
            e == Positions(doc, <<"end", n>>)
        IN  \/ s = {} /\ e = {}
            \/ /\ Cardinality(s) = 1
               /\ Cardinality(e) = 1
               /\ \A i \in s, j \in e :
                      /\ i < j
                      /\ \A k \in (i + 1)..(j - 1) : ~IsMarker(doc[k])

\* what CLAUDE.md may hold before a generation: a file with intact user
\* sections, or a short file with broken markers
ExistingDocs ==
    { d \in DocsUpTo(MaxExistingLen) : WellFormed(d) \/ Len(d) <= MaxMalformedLen }

\* what the template renders to
NewDocs == { d \in DocsUpTo(MaxNewLen) : WellFormed(d) }

MarkerNames(doc) == { doc[k][2] : k \in { i \in 1..Len(doc) : IsMarker(doc[i]) } }

StartOf(doc, n) == CHOOSE k \in Positions(doc, <<"start", n>>) : TRUE

EndOf(doc, n) == CHOOSE k \in Positions(doc, <<"end", n>>) : TRUE

\* the content between the markers of section n
RegionContent(doc, n) == SubSeq(doc, StartOf(doc, n) + 1, EndOf(doc, n) - 1)

\* section n with its markers
Region(doc, n) == SubSeq(doc, StartOf(doc, n), EndOf(doc, n))

\* what is written between the markers of a section that both files have
TemplateContent(E, N, n) == RegionContent(N, n)

BothContents(E, N, n) == RegionContent(E, n) \o RegionContent(N, n)

PreservedContent(E, N, n) == RegionContent(E, n)

RECURSIVE SpliceFrom(_, _, _)
SpliceFrom(E, N, k) ==
    IF k > Len(N)
    THEN << >>
    ELSE IF N[k][1] = "start" /\ N[k][2] \in MarkerNames(E)
         THEN << N[k] >> \o PreservedContent(E, N, N[k][2])
                         \o SpliceFrom(E, N, EndOf(N, N[k][2]))
         ELSE << N[k] >> \o SpliceFrom(E, N, k + 1)

SpliceNothing(E, N) == N

Splice(E, N) == SpliceFrom(E, N, 1)

\* user sections of the existing file the generated content no longer has
OrphanNames(E, N) == MarkerNames(E) \ MarkerNames(N)

RECURSIVE RegionsInOrder(_, _)
RegionsInOrder(E, names) ==
    IF names = {}
    THEN << >>
    ELSE LET n == CHOOSE x \in names : \A y \in names : StartOf(E, x) <= StartOf(E, y)
         IN  Region(E, n) \o RegionsInOrder(E, names \ {n})

AppendOrphans(E, N, out) == out \o RegionsInOrder(E, OrphanNames(E, N))

KeepExisting(E, N) == E

MergeRegions(E, N) == AppendOrphans(E, N, Splice(E, N))

\* an existing file without user sections is left as it is
MergeKeepingUnmarked(exists, E, N) ==
    IF ~exists
    THEN [ok |-> TRUE, content |-> N, warnings |-> {}]
    ELSE IF ~WellFormed(E)
    THEN [ok |-> FALSE, content |-> E, warnings |-> {}]
    ELSE IF MarkerNames(E) = {}
    THEN [ok |-> TRUE, content |-> E, warnings |-> {}]
    ELSE [ok |-> TRUE, content |-> MergeRegions(E, N), warnings |-> OrphanNames(E, N)]

Merge(exists, E, N) ==
    IF ~exists
    THEN [ok |-> TRUE, content |-> N, warnings |-> {}]
    ELSE IF ~WellFormed(E)
    THEN [ok |-> FALSE, content |-> E, warnings |-> {}]
    ELSE IF MarkerNames(E) = {}
    THEN [ok |-> TRUE, content |-> N, warnings |-> {}]
    ELSE IF ~WellFormed(N)
    THEN [ok |-> FALSE, content |-> E, warnings |-> {}]
    ELSE [ok |-> TRUE, content |-> MergeRegions(E, N), warnings |-> OrphanNames(E, N)]

InitMerge ==
    /\ pc = "idle"
    /\ mode = "both"
    /\ update = FALSE
    /\ stateWritable = TRUE
    /\ cur = 1
    /\ running = {}
    /\ executed = << >>
    /\ disk = Truncated(0)
    /\ status = disk
    /\ envDone = FALSE
    /\ failedNow = {}
    /\ startStatus = disk
    /\ runs = 0
    /\ faults = 0
    /\ reports = << >>
    /\ prev = NoRun
    /\ fileExists \in BOOLEAN
    /\ file \in IF fileExists THEN ExistingDocs ELSE { << >> }
    /\ newContent \in NewDocs
    /\ existingExists = fileExists
    /\ existing = file
    /\ firstOutput = << >>
    /\ merges = 0
    /\ mergeOk = TRUE
    /\ warnings = {}
    /\ GenIdle
    /\ FactIdle
    /\ HookIdle
    /\ DocIdle
    /\ CancelIdle
    /\ CompletionRecorded
    /\ EntryIdle
    /\ LearnIdle
    /\ BackupIdle
    /\ VerifyIdle
    /\ ManifestIdle
    /\ RenderIdle

\* steps 4 and 5 of the procedure: preserve user customizations, write CLAUDE.md
WriteClaudeMd ==
    /\ merges < MaxMerges
    /\ mergeOk
    /\ LET r == Merge(fileExists, file, newContent)
       IN  /\ mergeOk' = r.ok
           /\ file' = r.content
           /\ fileExists' = (fileExists \/ r.ok)
           /\ warnings' = r.warnings
           /\ firstOutput' = IF merges = 0 THEN r.content ELSE firstOutput
    /\ merges' = merges + 1
    /\ UNCHANGED << wfVars, genVars, hookVars, docVars, cancelVars, completionVars, entryVars, learnVars, backupVars, verifyVars, manifestVars, renderVars, factVars, newContent, existingExists, existing >>

NextMerge == WriteClaudeMd

SpecMerge == InitMerge /\ [][NextMerge]_vars

(***************************************************************************)
(* The generation of CLAUDE.md with its first step: an existing CLAUDE.md  *)
(* is copied to CLAUDE.md.backup before its content is read and merged.    *)
(***************************************************************************)
\* a step 1 that leaves the backup file as it is
KeepBackup(bk, exists, content) == bk

\* If CLAUDE.md exists: create backup as CLAUDE.md.backup
TakeBackup(bk, exists, content) ==
    IF exists THEN [exists |-> TRUE, content |-> content] ELSE bk

\* step 1: check for an existing CLAUDE.md
CheckExistingClaudeMd ==
    /\ merges < MaxMerges
    /\ mergeOk
    /\ backupChecks = merges
    /\ backup' = TakeBackup(backup, fileExists, file)
    /\ backupChecks' = backupChecks + 1
    /\ UNCHANGED << wfVars, mergeVars, genVars, hookVars, docVars, cancelVars, completionVars, entryVars, learnVars, verifyVars,
                    manifestVars, renderVars, factVars >>

\* steps 2 to 5, after step 1
WriteAfterCheck ==
    /\ backupChecks = merges + 1
    /\ WriteClaudeMd

NextBackup ==
    \/ CheckExistingClaudeMd
    \/ WriteAfterCheck

SpecBackup == InitMerge /\ [][NextBackup]_vars

(***************************************************************************)
(* A generation step over several destination files.  Every file is merged *)
(* on its own; a file that cannot be merged is logged and recorded, the    *)
(* other files are still written, and the run continues with the next      *)
(* procedure.                                                              *)
(***************************************************************************)
MaxGenLen == 2

GenStep == 5

GenRegion == "CUSTOM_RULES"

\* what a destination file may hold before the step
GenDocs == { d \in DocsUpTo(MaxGenLen) : MarkerNames(d) \subseteq {GenRegion} }

\* what the templates render to: text around one user section
GenNewDocs ==
    { << <<"text", t>>, <<"start", GenRegion>>, <<"text", "a">>, <<"end", GenRegion>> >> :
          t \in TextTokens }

InitGen ==
    /\ pc = "running"
    /\ mode = "project"
    /\ update = FALSE
    /\ stateWritable = TRUE
    /\ cur = GenStep
    /\ running = {}
    /\ executed = << >>
    /\ disk = Truncated(GenStep - 1)
    /\ status = disk
    /\ envDone = FALSE
    /\ failedNow = {}
    /\ startStatus = disk
    /\ runs = 1
    /\ faults = 0
    /\ reports = << >>
    /\ prev = NoRun
    /\ fileExists = FALSE
    /\ file = << >>
    /\ newContent = << >>
    /\ existingExists = FALSE
    /\ existing = << >>
    /\ firstOutput = << >>
    /\ merges = 0
    /\ mergeOk = TRUE
    /\ warnings = {}
    /\ dest \in [ GenFiles -> {NoFile} \cup { [exists |-> TRUE, content |-> d] : d \in GenDocs } ]
    /\ destBefore = dest
    /\ rendered \in [ GenFiles -> GenNewDocs ]
    /\ fileResult = [ f \in GenFiles |-> "pending" ]
    /\ FactIdle
    /\ HookIdle
    /\ DocIdle
    /\ CancelIdle
    /\ CompletionRecorded
    /\ EntryIdle
    /\ LearnIdle
    /\ BackupIdle
    /\ VerifyIdle
    /\ ManifestIdle
    /\ RenderIdle

\* a merge that writes its result to every destination of the step
MergeFileIntoAll(f) ==
    /\ pc = "running"
    /\ GenStep \in running
    /\ fileResult[f] = "pending"
    /\ LET r == Merge(dest[f].exists, dest[f].content, rendered[f])
       IN  /\ dest' = [ g \in GenFiles |-> [exists |-> dest[g].exists \/ r.ok, content |-> r.content] ]
           /\ fileResult' = [fileResult EXCEPT ![f] = IF r.ok THEN "merged" ELSE "failed"]
    /\ UNCHANGED << wfVars, mergeVars, factVars, hookVars, docVars, cancelVars, completionVars, entryVars, learnVars, backupVars, verifyVars, manifestVars, renderVars, destBefore, rendered >>

\* merge the rendered content into one destination file
MergeFile(f) ==
    /\ pc = "running"
    /\ GenStep \in running
    /\ fileResult[f] = "pending"
    /\ LET r == Merge(dest[f].exists, dest[f].content, rendered[f])
       IN  /\ dest' = [dest EXCEPT ![f] = [exists |-> dest[f].exists \/ r.ok, content |-> r.content]]
           /\ fileResult' = [fileResult EXCEPT ![f] = IF r.ok THEN "merged" ELSE "failed"]
    /\ UNCHANGED << wfVars, mergeVars, factVars, hookVars, docVars, cancelVars, completionVars, entryVars, learnVars, backupVars, verifyVars, manifestVars, renderVars, destBefore, rendered >>

GenOutcomeBlocking(res) == IF \E f \in GenFiles : res[f] = "failed" THEN "failed" ELSE "completed"

\* a file that could not be written is logged and recorded; the step does not fail
GenOutcome(res) == IF \E f \in GenFiles : res[f] = "failed" THEN "skipped" ELSE "completed"

EndGenerate ==
    /\ \A f \in GenFiles : fileResult[f] # "pending"
    /\ EndStep(GenStep, GenOutcome(fileResult))

NextGen ==
    \/ \E i \in {GenStep, GenStep + 1} : ExecuteStep(i)
    \/ \E f \in GenFiles : MergeFile(f)
    \/ EndGenerate

SpecGen == InitGen /\ [][NextGen]_vars

(***************************************************************************)
(* The analysis procedure: create the bootstrap directory, check the       *)
(* discovery sources in order, save analysis.json and the manifest.        *)
(***************************************************************************)
AnalyzeStep == 4

DirPath(dir) == <<dir, "">>

AnalysisInRoot(dir) == <<".", "analysis.json">>

AnalysisPath(dir) == <<dir, "analysis.json">>

ManifestPath(dir) == <<dir, "manifest.json">>

\* the target project before the analysis: the project's own files, and the
\* bootstrap directory of an earlier run when there was one
ProjectTree(rerun) ==
    [ p \in Paths |->
        IF p \in {<<".", "README.md">>, <<".", "package.json">>}
        THEN "original"
        ELSE IF rerun /\ p[1] = BootDirs[1] THEN "original" ELSE "absent" ]

InitDiscover ==
    /\ pc = "running"
    /\ mode = "project"
    /\ update = FALSE
    /\ stateWritable = TRUE
    /\ cur = AnalyzeStep
    /\ running = {}
    /\ executed = << >>
    /\ disk = Truncated(0)
    /\ status = disk
    /\ envDone = FALSE
    /\ failedNow = {}
    /\ startStatus = disk
    /\ runs = 1
    /\ faults = 0
    /\ reports = << >>
    /\ prev = NoRun
    /\ fileExists = FALSE
    /\ file = << >>
    /\ newContent = << >>
    /\ existingExists = FALSE
    /\ existing = << >>
    /\ firstOutput = << >>
    /\ merges = 0
    /\ mergeOk = TRUE
    /\ warnings = {}
    /\ GenIdle
    /\ HookIdle
    /\ DocIdle
    /\ CancelIdle
    /\ CompletionRecorded
    /\ EntryIdle
    /\ LearnIdle
    /\ BackupIdle
    /\ VerifyIdle
    /\ ManifestIdle
    /\ RenderIdle
    /\ results \in [ 1..NumDetectors -> {"none", "error"} \cup Values ]
    /\ detIdx = 0
    /\ store = [ k \in FactKeys |-> NoFact ]
    /\ findings = {}
    /\ detDone = {}
    /\ dirFails \in 0..Len(BootDirs)
    /\ bootDir = ""
    /\ \E rerun \in BOOLEAN : tree = ProjectTree(rerun)
    /\ treeBefore = tree

\* step 1: mkdir -p .claude-bootstrap, or .claude/bootstrap when that fails
CreateBootstrapDirectory ==
    /\ pc = "running"
    /\ AnalyzeStep \in running
    /\ detIdx = 0
    /\ dirFails < Len(BootDirs)
    /\ LET dir == BootDirs[dirFails + 1]
       IN  /\ bootDir' = dir
           /\ tree' = [tree EXCEPT ![DirPath(dir)] =
                           IF tree[DirPath(dir)] = "absent" THEN "written" ELSE @]
    /\ detIdx' = 1
    /\ UNCHANGED << wfVars, mergeVars, genVars, hookVars, docVars, cancelVars, completionVars, entryVars, learnVars, backupVars, verifyVars, manifestVars, renderVars, results, store, findings, detDone, dirFails, treeBefore >>

\* no bootstrap directory can be created: report the error and stop
CannotCreateDirectory ==
    /\ detIdx = 0
    /\ dirFails = Len(BootDirs)
    /\ EndStep(AnalyzeStep, "failed")

\* a source that fails leaves a note and no fact
FactsEvenOnError(d, r) ==
    IF r = "none"
    THEN {}
    ELSE { [key |-> k, value |-> r, confidence |-> DetConfidence(d), source |-> d] :
               k \in DetKeys(d) }

\* what source d contributes when it yields r
Facts(d, r) ==
    IF r \in Values
    THEN { [key |-> k, value |-> r, confidence |-> DetConfidence(d), source |-> d] :
               k \in DetKeys(d) }
    ELSE {}

\* the later source overwrites
StoreOverwriting(st, facts) ==
    [ k \in FactKeys |->
        IF \E f \in facts : f.key = k
        THEN LET f == CHOOSE g \in facts : g.key = k
             IN  [value |-> f.value, confidence |-> f.confidence, source |-> f.source]
        ELSE st[k] ]

\* the sources are checked in order: a key that has a value keeps it
StoreFacts(st, facts) ==
    [ k \in FactKeys |->
        IF st[k] = NoFact /\ \E f \in facts : f.key = k
        THEN LET f == CHOOSE g \in facts : g.key = k
             IN  [value |-> f.value, confidence |-> f.confidence, source |-> f.source]
        ELSE st[k] ]

\* steps 2..10: check the next discovery source
RunDetector ==
    /\ pc = "running"
    /\ AnalyzeStep \in running
    /\ detIdx \in 1..NumDetectors
    /\ store' = StoreFacts(store, Facts(detIdx, results[detIdx]))
    /\ findings' = IF results[detIdx] = "error" THEN findings \cup {detIdx} ELSE findings
    /\ detDone' = detDone \cup {detIdx}
    /\ detIdx' = detIdx + 1
    /\ UNCHANGED << wfVars, mergeVars, genVars, hookVars, docVars, cancelVars, completionVars, entryVars, learnVars, backupVars, verifyVars, manifestVars, renderVars, results, dirFails, bootDir, tree, treeBefore >>

\* steps 11 and 14: write analysis.json, initialize manifest.json
SaveAnalysis ==
    /\ pc = "running"
    /\ AnalyzeStep \in running
    /\ detIdx = NumDetectors + 1
    /\ tree' = [ p \in Paths |->
                    IF p \in {AnalysisPath(bootDir), ManifestPath(bootDir)}
                    THEN "written"
                    ELSE tree[p] ]
    /\ detIdx' = detIdx + 1
    /\ UNCHANGED << wfVars, mergeVars, genVars, hookVars, docVars, cancelVars, completionVars, entryVars, learnVars, backupVars, verifyVars, manifestVars, renderVars, results, store, findings, detDone, dirFails, bootDir,
                    treeBefore >>

EndAnalyze ==
    /\ detIdx = NumDetectors + 2
    /\ EndStep(AnalyzeStep, "completed")

NextDiscover ==
    \/ \E i \in {AnalyzeStep, AnalyzeStep + 1} : ExecuteStep(i)
    \/ CreateBootstrapDirectory
    \/ CannotCreateDirectory
    \/ RunDetector
    \/ SaveAnalysis
    \/ EndAnalyze

SpecDiscover == InitDiscover /\ [][NextDiscover]_vars

(***************************************************************************)
(* A hook script at work: stdin arrives in chunks, cut anywhere; when it   *)
(* has ended the end handler runs its try block and passes the input on.   *)
(***************************************************************************)
MaxInputChars == 3

RECURSIVE CharSeqsUpTo(_)
CharSeqsUpTo(n) ==
    IF n = 0 THEN { << >> }
    ELSE CharSeqsUpTo(n - 1) \cup
         { Append(cs, c) : cs \in { x \in CharSeqsUpTo(n - 1) : Len(x) = n - 1 }, c \in Chars }

InitHook ==
    /\ pc = "idle"
    /\ mode = "both"
    /\ update = FALSE
    /\ stateWritable = TRUE
    /\ cur = 1
    /\ running = {}
    /\ executed = << >>
    /\ disk = Truncated(0)
    /\ status = disk
    /\ envDone = FALSE
    /\ failedNow = {}
    /\ startStatus = disk
    /\ runs = 0
    /\ faults = 0
    /\ reports = << >>
    /\ prev = NoRun
    /\ fileExists = FALSE
    /\ file = << >>
    /\ newContent = << >>
    /\ existingExists = FALSE
    /\ existing = << >>
    /\ firstOutput = << >>
    /\ merges = 0
    /\ mergeOk = TRUE
    /\ warnings = {}
    /\ GenIdle
    /\ FactIdle
    /\ hook \in Hooks
    /\ hpc = "reading"
    /\ stdinBytes \in { Encode(cs) : cs \in CharSeqsUpTo(MaxInputChars) }
    /\ wire = stdinBytes
    /\ data = << >>
    /\ path = "none"
    /\ stdout = << >>
    /\ DocIdle
    /\ CancelIdle
    /\ CompletionRecorded
    /\ EntryIdle
    /\ LearnIdle
    /\ BackupIdle
    /\ VerifyIdle
    /\ ManifestIdle
    /\ RenderIdle

\* process.stdin.on('data', chunk => data += chunk), for a chunk of n bytes
OnData(n) ==
    /\ hpc = "reading"
    /\ n \in 1..Len(wire)
    /\ data' = data \o DecodeChunk(SubSeq(wire, 1, n))
    /\ wire' = SubSeq(wire, n + 1, Len(wire))
    /\ UNCHANGED << hook, hpc, stdinBytes, path, stdout, wfVars, mergeVars, genVars, factVars, docVars, cancelVars, completionVars, entryVars, learnVars, backupVars, verifyVars, manifestVars, renderVars >>

\* the write inside the try block: the Stop check when git names no modified file
WritesInTry(h, p, d) ==
    IF h = "check-debug-statements" /\ p = "no-modified" THEN << ConsoleLog(d) >> ELSE << >>

\* the try block ends in a return, right after that write
ReturnsEarly(h, p) == h = "check-debug-statements" /\ p = "no-modified"

\* what the end handler writes to stdout on path p with the input d
HandlerWrites(h, p, d) ==
    WritesInTry(h, p, d) \o (IF ReturnsEarly(h, p) THEN << >> ELSE << ConsoleLog(d) >>)

\* process.stdin.on('end', ...), taking path p through the try block
OnEnd(p) ==
    /\ hpc = "reading"
    /\ wire = << >>
    /\ p \in HookPaths(hook)
    /\ path' = p
    /\ stdout' = stdout \o HandlerWrites(hook, p, data)
    /\ hpc' = "returned"
    /\ UNCHANGED << hook, stdinBytes, wire, data, wfVars, mergeVars, genVars, factVars, docVars, cancelVars, completionVars, entryVars, learnVars, backupVars, verifyVars, manifestVars, renderVars >>

NextHook ==
    \/ \E n \in 1..(2 * MaxInputChars) : OnData(n)
    \/ \E p \in UNION { HookPaths(h) : h \in Hooks } : OnEnd(p)

SpecHook == InitHook /\ [][NextHook]_vars

(***************************************************************************)
(* The documentation procedures: Generate Documentation and Setup ADRs,    *)
(* executed again and again over the files of one project.                 *)
(***************************************************************************)
MaxDocRuns == 2

FileOf(c) == [exists |-> TRUE, content |-> c]

\* the project before the bootstrap: any of the files may be there already,
\* written by the user; a tdd guide of the user may have the hypothesis part
UserFiles(f) ==
    {NoFile, FileOf(UserContent)} \cup
    (IF f[2] = "tdd-enforcement.md" /\ f[1] = ExistingDocsDir
     THEN {FileOf(<< "user", "hypothesis" >>)} ELSE {})

InitDocs ==
    /\ pc = "idle"
    /\ mode = "both"
    /\ update = FALSE
    /\ stateWritable = TRUE
    /\ cur = 1
    /\ running = {}
    /\ executed = << >>
    /\ disk = Truncated(0)
    /\ status = disk
    /\ envDone = FALSE
    /\ failedNow = {}
    /\ startStatus = disk
    /\ runs = 0
    /\ faults = 0
    /\ reports = << >>
    /\ prev = NoRun
    /\ fileExists = FALSE
    /\ file = << >>
    /\ newContent = << >>
    /\ existingExists = FALSE
    /\ existing = << >>
    /\ firstOutput = << >>
    /\ merges = 0
    /\ mergeOk = TRUE
    /\ warnings = {}
    /\ GenIdle
    /\ FactIdle
    /\ HookIdle
    /\ docs \in { d \in [DocFiles -> {NoFile, FileOf(UserContent), FileOf(<< "user", "hypothesis" >>)}] :
                    \A f \in DocFiles : d[f] \in UserFiles(f) }
    /\ docsBefore = docs
    /\ docStep = "none"
    /\ docRuns = 0
    /\ CancelIdle
    /\ CompletionRecorded
    /\ EntryIdle
    /\ LearnIdle
    /\ BackupIdle
    /\ VerifyIdle
    /\ ManifestIdle
    /\ RenderIdle

CreateAlways(f, d) == FileOf(Template(f))

\* If exists: skip (don't overwrite user customizations); if missing: create from template
CreateIfMissing(f, d) == IF d[f].exists THEN d[f] ELSE FileOf(Template(f))

\* the sections of the template that the content lacks
RECURSIVE Missing(_, _)
Missing(tpl, c) ==
    IF tpl = << >> THEN << >>
    ELSE (IF Head(tpl) \in Range(c) \/ Head(tpl) = "template" THEN << >> ELSE << Head(tpl) >>)
         \o Missing(Tail(tpl), c)

\* A3: an existing guide is enhanced, its missing sections added and its own
\* content preserved; a guide that is missing is copied from the template
EnhanceOrCreate(f, d) ==
    IF d[f].exists
    THEN FileOf(d[f].content \o Missing(Template(f), d[f].content))
    ELSE FileOf(Template(f))

\* the analysis names a gap for a guide that is missing from the existing
\* documentation or lacks a part of the template
GapsOf(d) ==
    { GapOf(g) : g \in { g \in Guides :
        LET f == << ExistingDocsDir, g >>
        IN  \/ ~d[f].exists
            \/ (g = "tdd-enforcement.md" /\ Missing(Template(f), d[f].content) # << >>) } }

\* Path B: create claude-docs/ with the guides and the index
CreateNew(d, mkdirFails) ==
    IF mkdirFails THEN d
    ELSE [ f \in DocFiles |->
             IF f \in {NewDocsDir} \X Guides THEN CreateIfMissing(f, d)
             ELSE IF f = IndexFile THEN FileOf(<< "index" >>)
             ELSE d[f] ]

\* Path A: enhance the existing documentation, for each gap; when the
\* existing directory cannot be written, claude-docs/ is tried instead
EnhanceExisting(d, gaps, dirFails_, fallbackFails) ==
    LET target == IF dirFails_ THEN NewDocsDir ELSE ExistingDocsDir
    IN  IF dirFails_ /\ fallbackFails THEN d
        ELSE [ f \in DocFiles |->
                 IF f[1] = target /\ f[2] \in Guides /\ GapOf(f[2]) \in gaps
                 THEN EnhanceOrCreate(f, d)
                 ELSE d[f] ]

GenerateDocs(rec, gaps, fails, fallbackFails) ==
    /\ docRuns < MaxDocRuns
    /\ rec = "enhance_existing" =>
          /\ \E g \in Guides : docs[<< ExistingDocsDir, g >>].exists
          /\ gaps \subseteq GapsOf(docs)
    /\ rec # "enhance_existing" => gaps = {} /\ ~fallbackFails
    /\ rec = "no_changes_needed" => ~fails
    /\ docsBefore' = docs
    /\ docs' = CASE rec = "create_new"        -> CreateNew(docs, fails)
                 [] rec = "enhance_existing"  -> EnhanceExisting(docs, gaps, fails, fallbackFails)
                 [] OTHER                     -> docs
    /\ docStep' = rec
    /\ docRuns' = docRuns + 1
    /\ UNCHANGED << wfVars, mergeVars, genVars, factVars, hookVars, cancelVars, completionVars, entryVars, learnVars, backupVars, verifyVars, manifestVars, renderVars >>

\* Setup ADRs: README and template, each created if it does not exist
SetupADRs ==
    /\ docRuns < MaxDocRuns
    /\ docsBefore' = docs
    /\ docs' = [ f \in DocFiles |-> IF f \in AdrFiles THEN CreateIfMissing(f, docs) ELSE docs[f] ]
    /\ docStep' = "setup-adrs"
    /\ docRuns' = docRuns + 1
    /\ UNCHANGED << wfVars, mergeVars, genVars, factVars, hookVars, cancelVars, completionVars, entryVars, learnVars, backupVars, verifyVars, manifestVars, renderVars >>

Recommendations == {"enhance_existing", "create_new", "no_changes_needed"}

NextDocs ==
    \/ \E rec \in Recommendations, gaps \in SUBSET Gaps, fails \in BOOLEAN, ff \in BOOLEAN :
          GenerateDocs(rec, gaps, fails, ff)
    \/ SetupADRs

SpecDocs == InitDocs /\ [][NextDocs]_vars

(***************************************************************************)
(* Cooperative cancellation of a run, checked between steps: a request is  *)
(* noted at any time; the step that is running ends; before anything else *)
(* begins the run stops and leaves the recorded state as it is.            *)
(***************************************************************************)
RequestCancel ==
    /\ pc = "running"
    /\ ~cancelRequested
    /\ cancelRequested' = TRUE
    /\ executedAtCancel' = Len(executed)
    /\ UNCHANGED << wfVars, mergeVars, genVars, factVars, hookVars, docVars, resumed, manifestVars, completionVars, entryVars, learnVars, backupVars, verifyVars, renderVars >>

CancelRun ==
    /\ pc = "running"
    /\ cancelRequested
    /\ running = {}
    /\ pc' = "cancelled"
    /\ UNCHANGED << mode, update, stateWritable, cur, running, executed, status, disk,
                    envDone, failedNow, startStatus, runs, faults, reports, prev,
                    mergeVars, genVars, factVars, hookVars, docVars, cancelVars, completionVars, entryVars, learnVars, backupVars, verifyVars, manifestVars, renderVars >>

\* a run is started on a fresh target, or once more after a cancelled run
StartOrResume(m, writable) ==
    /\ pc = "idle" \/ (pc = "cancelled" /\ ~resumed)
    /\ StartRun(m, FALSE, writable)

NextCancel ==
    \/ \E m \in Modes, w \in BOOLEAN : StartOrResume(m, w)
    \/ ~cancelRequested /\ SkipCompleted
    \/ ~cancelRequested /\ \E i \in 1..NumSteps : ExecuteStep(i)
    \/ \E i \in 1..NumSteps, o \in Outcomes : EndStep(i, o)
    \/ ~cancelRequested /\ SaveState
    \/ ~cancelRequested /\ FinishRun
    \/ RequestCancel
    \/ CancelRun

SpecCancel == Init /\ [][NextCancel]_vars

(***************************************************************************)
(* An update pass over a target that was bootstrapped before: every step   *)
(* is recorded as completed or skipped, and the files of the generation    *)
(* step are there, their user section edited by the user.                  *)
(***************************************************************************)
\* the recorded states an update pass starts from
UpdateStarts ==
    { Truncated(NumSteps) } \cup
    { [Truncated(NumSteps) EXCEPT ![j] = "skipped"] : j \in 1..NumSteps }

\* a file generated by an earlier run, with the user's text in its section
PrevGenerated ==
    { [exists |-> TRUE,
       content |-> << <<"text", "a">>, <<"start", GenRegion>>, <<"text", u>>, <<"end", GenRegion>> >>] :
          u \in TextTokens }

InitUpdate ==
    /\ pc = "idle"
    /\ mode = "both"
    /\ update = FALSE
    /\ stateWritable = TRUE
    /\ cur = 1
    /\ running = {}
    /\ executed = << >>
    /\ disk \in UpdateStarts
    /\ status = disk
    /\ envDone = FALSE
    /\ failedNow = {}
    /\ startStatus = disk
    /\ runs = 0
    /\ faults = 0
    /\ reports = << >>
    /\ prev = NoRun
    /\ fileExists = FALSE
    /\ file = << >>
    /\ newContent = << >>
    /\ existingExists = FALSE
    /\ existing = << >>
    /\ firstOutput = << >>
    /\ merges = 0
    /\ mergeOk = TRUE
    /\ warnings = {}
    /\ dest \in [ GenFiles -> PrevGenerated ]
    /\ destBefore = dest
    /\ rendered \in [ GenFiles -> GenNewDocs ]
    /\ fileResult = [ f \in GenFiles |-> "pending" ]
    /\ FactIdle
    /\ HookIdle
    /\ DocIdle
    /\ CancelIdle
    /\ CompletionRecorded
    /\ EntryIdle
    /\ LearnIdle
    /\ BackupIdle
    /\ VerifyIdle
    /\ ManifestIdle
    /\ RenderIdle

\* the update pass is requested
StartUpdate(m, writable) == pc = "idle" /\ StartRun(m, TRUE, writable)

NextUpdate ==
    \/ \E m \in Modes, w \in BOOLEAN : StartUpdate(m, w)
    \/ \E i \in 1..NumSteps : ExecuteStep(i)
    \/ \E i \in (1..NumSteps) \ {GenStep}, o \in Outcomes : EndStep(i, o)
    \/ \E f \in GenFiles : MergeFile(f)
    \/ EndGenerate
    \/ SaveState
    \/ FinishRun

SpecUpdate == InitUpdate /\ [][NextUpdate]_vars

(***************************************************************************)
(* The project manifest under interruption.  Each procedure ends by        *)
(* updating .claude-bootstrap/manifest.json in place; the process may be   *)
(* interrupted anywhere, also while the file is being written.  A later    *)
(* run reads the manifest; a corrupted manifest is deleted and the         *)
(* bootstrap re-run from the beginning.                                    *)
(***************************************************************************)
MaxManifestRuns == 3

InitManifest ==
    /\ pc = "idle"
    /\ mode = "both"
    /\ update = FALSE
    /\ stateWritable = TRUE
    /\ cur = 1
    /\ running = {}
    /\ executed = << >>
    /\ disk = Truncated(0)
    /\ status = disk
    /\ envDone = FALSE
    /\ failedNow = {}
    /\ startStatus = disk
    /\ runs = 0
    /\ faults = 0
    /\ reports = << >>
    /\ prev = NoRun
    /\ fileExists = FALSE
    /\ file = << >>
    /\ newContent = << >>
    /\ existingExists = FALSE
    /\ existing = << >>
    /\ firstOutput = << >>
    /\ merges = 0
    /\ mergeOk = TRUE
    /\ warnings = {}
    /\ GenIdle
    /\ FactIdle
    /\ HookIdle
    /\ DocIdle
    /\ CancelIdle
    /\ CompletionRecorded
    /\ EntryIdle
    /\ LearnIdle
    /\ BackupIdle
    /\ VerifyIdle
    /\ manifest = Complete(NoManifest)
    /\ memory = NoManifest
    /\ mpc = "ready"
    /\ mcur = 4
    /\ finished = {}
    /\ prevFinished = {}
    /\ reexecuted = {}
    /\ fromCorrupted = FALSE
    /\ mruns = 1
    /\ RenderIdle

\* the first project step that the statuses st do not record as completed
ResumeFromBeginning(st) == 4

ResumePoint(st) ==
    IF \E i \in ProjectSteps : st[i] # "completed"
    THEN CHOOSE i \in ProjectSteps : st[i] # "completed" /\ \A j \in ProjectSteps : st[j] # "completed" => i <= j
    ELSE NumSteps + 1

\* a procedure is started
BeginProcedure ==
    /\ mpc = "ready"
    /\ mcur \in ProjectSteps
    /\ mpc' = "step"
    /\ reexecuted' = IF mcur \in prevFinished THEN reexecuted \cup {mcur} ELSE reexecuted
    /\ UNCHANGED << manifest, memory, mcur, finished, prevFinished, fromCorrupted, mruns,
                    wfVars, mergeVars, genVars, factVars, hookVars, docVars, cancelVars, completionVars, entryVars, learnVars, backupVars, verifyVars, renderVars >>

\* the procedure has done its work and turns to the manifest
EndProcedure ==
    /\ mpc = "step"
    /\ memory' = [memory EXCEPT ![mcur] = "completed"]
    /\ finished' = finished \cup {mcur}
    /\ mpc' = "towrite"
    /\ UNCHANGED << manifest, mcur, prevFinished, reexecuted, fromCorrupted, mruns,
                    wfVars, mergeVars, genVars, factVars, hookVars, docVars, cancelVars, completionVars, entryVars, learnVars, backupVars, verifyVars, renderVars >>

\* Update .claude-bootstrap/manifest.json: the write begins ...
BeginManifestWrite ==
    /\ mpc = "towrite"
    /\ mpc' = "writing"
    /\ UNCHANGED << manifest, memory, mcur, finished, prevFinished, reexecuted, fromCorrupted,
                    mruns, wfVars, mergeVars, genVars, factVars, hookVars, docVars, cancelVars, completionVars, entryVars, learnVars, backupVars, verifyVars, renderVars >>

\* ... and is complete; the next procedure can start
EndManifestWrite ==
    /\ mpc = "writing"
    /\ manifest' = Complete(memory)
    /\ mcur' = mcur + 1
    /\ mpc' = IF mcur = NumSteps THEN "finished" ELSE "ready"
    /\ UNCHANGED << memory, finished, prevFinished, reexecuted, fromCorrupted, mruns,
                    wfVars, mergeVars, genVars, factVars, hookVars, docVars, cancelVars, completionVars, entryVars, learnVars, backupVars, verifyVars, renderVars >>

\* what an interrupted write of the file may leave behind: the file is
\* written in place, so it holds the old version, the new one or a part
InterruptedWrite(old, new) == {old, Complete(new), Corrupted}

Interrupt ==
    /\ mpc \in {"ready", "step", "towrite", "writing"}
    /\ manifest' \in (IF mpc = "writing" THEN InterruptedWrite(manifest, memory) ELSE {manifest})
    /\ mpc' = "interrupted"
    /\ UNCHANGED << memory, mcur, finished, prevFinished, reexecuted, fromCorrupted, mruns,
                    wfVars, mergeVars, genVars, factVars, hookVars, docVars, cancelVars, completionVars, entryVars, learnVars, backupVars, verifyVars, renderVars >>

\* the bootstrap is run again: a corrupted manifest is deleted and the
\* bootstrap re-run from the beginning, otherwise progress resumes
RunAgain ==
    /\ mpc \in {"interrupted", "finished"}
    /\ mruns < MaxManifestRuns
    /\ LET st == IF manifest.readable THEN manifest.st ELSE NoManifest
       IN  /\ manifest' = Complete(st)
           /\ memory' = st
           /\ mcur' = ResumePoint(st)
           /\ mpc' = IF ResumePoint(st) > NumSteps THEN "finished" ELSE "ready"
    /\ fromCorrupted' = ~manifest.readable
    /\ prevFinished' = finished
    /\ finished' = IF manifest.readable THEN finished ELSE {}
    /\ reexecuted' = {}
    /\ mruns' = mruns + 1
    /\ UNCHANGED << wfVars, mergeVars, genVars, factVars, hookVars, docVars, cancelVars, completionVars, entryVars, learnVars, backupVars, verifyVars, renderVars >>

NextManifest ==
    \/ BeginProcedure
    \/ EndProcedure
    \/ BeginManifestWrite
    \/ EndManifestWrite
    \/ Interrupt
    \/ RunAgain

SpecManifest == InitManifest /\ [][NextManifest]_vars

(***************************************************************************)
(* The workers of one step.  The sources of the analysis are checked by    *)
(* workers that finish in any order and hold their output; the outputs are *)
(* stored together, in the declared order of the sources, once every       *)
(* worker has finished.  The files of the generation step are merged in    *)
(* any order.                                                              *)
(***************************************************************************)
RunWorker(d) ==
    /\ pc = "running"
    /\ AnalyzeStep \in running
    /\ detIdx = 1
    /\ d \in (1..NumDetectors) \ detDone
    /\ detDone' = detDone \cup {d}
    /\ UNCHANGED << wfVars, mergeVars, genVars, hookVars, docVars, cancelVars, completionVars, entryVars, learnVars, backupVars, verifyVars, manifestVars, renderVars,
                    results, detIdx, store, findings, dirFails, bootDir, tree, treeBefore >>

RECURSIVE Aggregated(_)
\* the outputs of sources 1..n stored in the order the procedure lists them
Aggregated(n) ==
    IF n = 0
    THEN [ k \in FactKeys |-> NoFact ]
    ELSE StoreFacts(Aggregated(n - 1), Facts(n, results[n]))

Aggregate ==
    /\ pc = "running"
    /\ AnalyzeStep \in running
    /\ detIdx = 1
    /\ detDone = 1..NumDetectors
    /\ store' = Aggregated(NumDetectors)
    /\ findings' = { d \in 1..NumDetectors : results[d] = "error" }
    /\ detIdx' = NumDetectors + 1
    /\ UNCHANGED << wfVars, mergeVars, genVars, hookVars, docVars, cancelVars, completionVars, entryVars, learnVars, backupVars, verifyVars, manifestVars, renderVars,
                    results, detDone, dirFails, bootDir, tree, treeBefore >>

InitWorkers == InitDiscover \/ InitGen

NextWorkers ==
    \/ \E i \in {AnalyzeStep, GenStep, GenStep + 1} : ExecuteStep(i)
    \/ CreateBootstrapDirectory
    \/ CannotCreateDirectory
    \/ \E d \in 1..NumDetectors : RunWorker(d)
    \/ Aggregate
    \/ SaveAnalysis
    \/ EndAnalyze
    \/ \E f \in GenFiles : MergeFile(f)
    \/ EndGenerate

SpecWorkers == InitWorkers /\ [][NextWorkers]_vars

\* discovery, then the generation step that reads what discovery stored
NextPipeline ==
    \/ \E i \in {AnalyzeStep, GenStep} : ExecuteStep(i)
    \/ CreateBootstrapDirectory
    \/ CannotCreateDirectory
    \/ RunDetector
    \/ SaveAnalysis
    \/ EndAnalyze
    \/ \E f \in GenFiles : MergeFile(f)
    \/ EndGenerate

SpecPipeline == InitDiscover /\ [][NextPipeline]_vars

(***************************************************************************)
(* Customizing a template: {{key}} placeholders are replaced with values   *)
(* of the analysis, {{#if key}}...{{else}}...{{/if}} blocks are resolved    *)
(* and all template tags are removed.  A template is a sequence of tokens. *)
(***************************************************************************)
MaxTemplateLen == 5

CommandKeys == {"commands.test"}

Text(x) == [t |-> "text", k |-> x]

Placeholder(key) == [t |-> "var", k |-> key]

If(key) == [t |-> "if", k |-> key]

Else == [t |-> "else", k |-> ""]

EndIf == [t |-> "end", k |-> ""]

TemplateTokens ==
    {Text("a"), Text("b"), If("commands.test"), Else, EndIf}
        \cup { Placeholder(key) : key \in FactKeys }

\* the tag as it stands in the template file
TagText(tok) ==
    CASE tok.t = "var"  -> "{{key}}"
      [] tok.t = "if"   -> "{{#if}}"
      [] tok.t = "else" -> "{{else}}"
      [] tok.t = "end"  -> "{{/if}}"
      [] OTHER          -> tok.k

TemplateTags == {"{{key}}", "{{#if}}", "{{else}}", "{{/if}}"}

\* number of tokens of the given kind among the first i tokens
CountOf(tp, i, kind) == Cardinality({ j \in 1..i : tp[j].t = kind })

\* blocks opened and not yet closed after token i
OpenBlocks(tp, i) == CountOf(tp, i, "if") - CountOf(tp, i, "end")

\* every block is closed, blocks are not nested, an else stands inside a block
\* and a block has at most one
TemplateOk(tp) ==
    /\ \A i \in 1..Len(tp) : OpenBlocks(tp, i) \in {0, 1}
    /\ OpenBlocks(tp, Len(tp)) = 0
    /\ \A i \in 1..Len(tp) :
           tp[i].t = "else" =>
               /\ OpenBlocks(tp, i) = 1
               /\ \A j \in 1..(i - 1) :
                      tp[j].t = "else" => \E m \in (j + 1)..(i - 1) : tp[m].t = "end"

Templates ==
    UNION { { tp \in [1..n -> TemplateTokens] : TemplateOk(tp) } : n \in 0..MaxTemplateLen }

\* discovery left the value as null or empty
Determined(v) == v # "null"

Truthy(v) == v \notin {"null", "false"}

\* the comment a template shows where a value could not be determined
PlaceholderComment == "<!-- ADD -->"

\* a placeholder that keeps its tag when there is no value
SubstituteOrKeepTag(v) == IF Determined(v) THEN v ELSE "{{key}}"

\* what stands in place of a placeholder
Substitute(v) == IF Determined(v) THEN v ELSE PlaceholderComment

RECURSIVE RenderKeepingTags(_, _, _, _)
\* a pass that selects the branch and leaves the block tags in the content
RenderKeepingTags(tp, i, keep, vals) ==
    IF i > Len(tp)
    THEN << >>
    ELSE LET tok == tp[i]
         IN  CASE tok.t = "if"   -> << TagText(tok) >> \o RenderKeepingTags(tp, i + 1, Truthy(vals[tok.k]), vals)
               [] tok.t = "else" -> << TagText(tok) >> \o RenderKeepingTags(tp, i + 1, ~keep, vals)
               [] tok.t = "end"  -> << TagText(tok) >> \o RenderKeepingTags(tp, i + 1, TRUE, vals)
               [] tok.t = "var"  ->
                      (IF keep THEN << Substitute(vals[tok.k]) >> ELSE << >>)
                          \o RenderKeepingTags(tp, i + 1, keep, vals)
               [] OTHER          ->
                      (IF keep THEN << tok.k >> ELSE << >>)
                          \o RenderKeepingTags(tp, i + 1, keep, vals)

RECURSIVE Render(_, _, _, _)
\* one pass from token i on; keep tells whether the text at hand is included
Render(tp, i, keep, vals) ==
    IF i > Len(tp)
    THEN << >>
    ELSE LET tok == tp[i]
         IN  CASE tok.t = "if"   -> Render(tp, i + 1, Truthy(vals[tok.k]), vals)
               [] tok.t = "else" -> Render(tp, i + 1, ~keep, vals)
               [] tok.t = "end"  -> Render(tp, i + 1, TRUE, vals)
               [] tok.t = "var"  ->
                      (IF keep THEN << Substitute(vals[tok.k]) >> ELSE << >>)
                          \o Render(tp, i + 1, keep, vals)
               [] OTHER          ->
                      (IF keep THEN << tok.k >> ELSE << >>)
                          \o Render(tp, i + 1, keep, vals)

InitRender ==
    /\ pc = "idle"
    /\ mode = "both"
    /\ update = FALSE
    /\ stateWritable = TRUE
    /\ cur = 1
    /\ running = {}
    /\ executed = << >>
    /\ disk = Truncated(0)
    /\ status = disk
    /\ envDone = FALSE
    /\ failedNow = {}
    /\ startStatus = disk
    /\ runs = 0
    /\ faults = 0
    /\ reports = << >>
    /\ prev = NoRun
    /\ fileExists = FALSE
    /\ file = << >>
    /\ newContent = << >>
    /\ existingExists = FALSE
    /\ existing = << >>
    /\ firstOutput = << >>
    /\ merges = 0
    /\ mergeOk = TRUE
    /\ warnings = {}
    /\ GenIdle
    /\ FactIdle
    /\ HookIdle
    /\ DocIdle
    /\ CancelIdle
    /\ CompletionRecorded
    /\ EntryIdle
    /\ LearnIdle
    /\ BackupIdle
    /\ VerifyIdle
    /\ ManifestIdle
    /\ tmpl \in Templates
    /\ analysis \in [ FactKeys -> AnalysisValues ]
    /\ claudeMd = << >>
    /\ logSummary = [ k \in CommandKeys |-> "none" ]
    /\ rpc = "loaded"

\* step 3: customize the template
CustomizeTemplate ==
    /\ rpc = "loaded"
    /\ claudeMd' = Render(tmpl, 1, TRUE, analysis)
    /\ rpc' = "customized"
    /\ UNCHANGED << wfVars, mergeVars, genVars, factVars, hookVars, docVars, cancelVars, completionVars, entryVars, learnVars, backupVars, verifyVars,
                    manifestVars, tmpl, analysis, logSummary >>

\* step 6: log which commands were detected and which are placeholders
LogSummary ==
    /\ rpc = "customized"
    /\ logSummary' = [ k \in CommandKeys |->
                         IF Determined(analysis[k]) THEN "detected" ELSE "placeholder" ]
    /\ rpc' = "logged"
    /\ UNCHANGED << wfVars, mergeVars, genVars, factVars, hookVars, docVars, cancelVars, completionVars, entryVars, learnVars, backupVars, verifyVars,
                    manifestVars, tmpl, analysis, claudeMd >>

NextRender ==
    \/ CustomizeTemplate
    \/ LogSummary

SpecRender == InitRender /\ [][NextRender]_vars

(***************************************************************************)
(* The verification procedure: check that the generated files exist, check *)
(* the content of CLAUDE.md, record the result in the manifest, and list   *)
(* the failures or present the summary.                                    *)
(***************************************************************************)
InitVerify ==
    /\ pc = "idle"
    /\ mode = "both"
    /\ update = FALSE
    /\ stateWritable = TRUE
    /\ cur = 1
    /\ running = {}
    /\ executed = << >>
    /\ disk = Truncated(0)
    /\ status = disk
    /\ envDone = FALSE
    /\ failedNow = {}
    /\ startStatus = disk
    /\ runs = 0
    /\ faults = 0
    /\ reports = << >>
    /\ prev = NoRun
    /\ fileExists = FALSE
    /\ file = << >>
    /\ newContent = << >>
    /\ existingExists = FALSE
    /\ existing = << >>
    /\ firstOutput = << >>
    /\ merges = 0
    /\ mergeOk = TRUE
    /\ warnings = {}
    /\ GenIdle
    /\ FactIdle
    /\ HookIdle
    /\ DocIdle
    /\ CancelIdle
    /\ CompletionRecorded
    /\ EntryIdle
    /\ LearnIdle
    /\ BackupIdle
    /\ ManifestIdle
    /\ RenderIdle
    /\ vfiles \in [ GeneratedFiles -> FileStates ]
    /\ vfailed = {}
    /\ vresult = NoVerification
    /\ vreport = {}
    /\ vpc = "files"

\* the checks of step 1 that see every file of the table as present
FailedFileChecksNone(fs) == {}

\* step 1: each file of the table exists; CLAUDE.md is also non-empty
FailedFileChecks(fs) ==
    { << "exists", f >> : f \in { g \in CheckedFiles : fs[g] = "missing" } }
        \cup (IF fs["CLAUDE.md"] = "empty" THEN { << "non-empty", "CLAUDE.md" >> } ELSE {})

\* step 2: CLAUDE.md has its content and no unresolved {{placeholders}}
FailedContentChecks(fs) ==
    (IF fs["CLAUDE.md"] \in {"missing", "empty"} THEN { << "content", "CLAUDE.md" >> } ELSE {})
        \cup (IF fs["CLAUDE.md"] = "placeholder"
              THEN { << "placeholders", "CLAUDE.md" >> } ELSE {})

CheckGeneratedFiles ==
    /\ vpc = "files"
    /\ vfailed' = vfailed \cup FailedFileChecks(vfiles)
    /\ vpc' = "content"
    /\ UNCHANGED << wfVars, mergeVars, genVars, factVars, hookVars, docVars, cancelVars, completionVars, entryVars, learnVars, backupVars,
                    manifestVars, renderVars, vfiles, vresult, vreport >>

VerifyClaudeMdContent ==
    /\ vpc = "content"
    /\ vfailed' = vfailed \cup FailedContentChecks(vfiles)
    /\ vpc' = "manifest"
    /\ UNCHANGED << wfVars, mergeVars, genVars, factVars, hookVars, docVars, cancelVars, completionVars, entryVars, learnVars, backupVars,
                    manifestVars, renderVars, vfiles, vresult, vreport >>

\* step 4: the verification record of the manifest
UpdateManifest ==
    /\ vpc = "manifest"
    /\ vresult' = [ files_created |->
                        IF \E c \in vfailed : c[1] \in {"exists", "non-empty"}
                        THEN "false" ELSE "true",
                    claude_md_valid |->
                        IF \E c \in vfailed : c[1] \in {"content", "placeholders"}
                        THEN "false" ELSE "true" ]
    /\ vpc' = "report"
    /\ UNCHANGED << wfVars, mergeVars, genVars, factVars, hookVars, docVars, cancelVars, completionVars, entryVars, learnVars, backupVars,
                    manifestVars, renderVars, vfiles, vfailed, vreport >>

\* step 5: nothing failed, the summary is presented
PresentSummary ==
    /\ vpc = "report"
    /\ vfailed = {}
    /\ vreport' = {}
    /\ vpc' = "reported"
    /\ UNCHANGED << wfVars, mergeVars, genVars, factVars, hookVars, docVars, cancelVars, completionVars, entryVars, learnVars, backupVars,
                    manifestVars, renderVars, vfiles, vfailed, vresult >>

\* step 6: "Some verification checks failed:" with the list of failures
HandleFailures ==
    /\ vpc = "report"
    /\ vfailed # {}
    /\ vreport' = vfailed
    /\ vpc' = "reported"
    /\ UNCHANGED << wfVars, mergeVars, genVars, factVars, hookVars, docVars, cancelVars, completionVars, entryVars, learnVars, backupVars,
                    manifestVars, renderVars, vfiles, vfailed, vresult >>

NextVerify ==
    \/ CheckGeneratedFiles
    \/ VerifyClaudeMdContent
    \/ UpdateManifest
    \/ PresentSummary
    \/ HandleFailures

SpecVerify == InitVerify /\ [][NextVerify]_vars

(***************************************************************************)
(* The learnings file and the two hooks that use it.  A file is the        *)
(* sequence of its lines as content.split('\n') yields them: the last      *)
(* element is what follows the last line break, the empty line when the    *)
(* content ends with one.                                                  *)
(***************************************************************************)
MAX_AGE_DAYS == 30

MAX_ENTRIES == 10

\* the day the hook runs, as a day number
Today == 40

MaxLearningsLines == 4

MaxOverlapLines == 2

MaxFileEntries == 11

\* a line: its kind, the date of a "### YYYY-MM-DD" header, the run that wrote
\* it, and the header that was appended to the line's end, if any
Ln(k, d, by) == [k |-> k, d |-> d, by |-> by, tail |-> 0, tailBy |-> 0]

BlankLine == Ln("blank", 0, 0)

TextLine == Ln("text", 0, 0)

BulletLine == Ln("bullet", 0, 0)

HeaderLine(d) == Ln("header", d, 0)

\* an entry of 31 days ago, of 30 days ago and of yesterday
EntryDates == {Today - MAX_AGE_DAYS - 1, Today - MAX_AGE_DAYS, Today - 1}

FileLines == {BlankLine, TextLine, BulletLine} \cup { HeaderLine(d) : d \in EntryDates }

LearningsUpTo(n) == UNION { [1..k -> FileLines] : k \in 1..n }

\* '# Session Learnings\n\nAuto-maintained by session hooks. ...\n\n'
DefaultPreamble == << TextLine, BlankLine, TextLine, BlankLine, BlankLine >>

\* line.match(/^### (\d{4}-\d{2}-\d{2})/)
IsDateHeader(l) == l.k = "header"

RECURSIVE PruneFrom(_, _, _)
\* pruneOldEntries, from line i on
PruneFrom(lines, i, skipping) ==
    IF i > Len(lines)
    THEN << >>
    ELSE LET skip == IF IsDateHeader(lines[i])
                     THEN lines[i].d < Today - MAX_AGE_DAYS
                     ELSE skipping
         IN  (IF skip THEN << >> ELSE << lines[i] >>) \o PruneFrom(lines, i + 1, skip)

\* pruned.join('\n'), as the lines of the joined string
Join(lines) == IF lines = << >> THEN << BlankLine >> ELSE lines

pruneOldEntries(lines) == Join(PruneFrom(lines, 1, FALSE))

\* `### ${date} ${time}\n- Signals: ${tags}\n- _(Edit this entry ...)_\n\n`
formatEntry(p) ==
    << Ln("header", Today, p), BulletLine, BulletLine, BlankLine, BlankLine >>

\* string concatenation a + b: the last line of a continues with the first of b
Concat(a, b) ==
    LET n == Len(a)
        glued == IF a[n] = BlankLine
                 THEN b[1]
                 ELSE [a[n] EXCEPT !.tail = b[1].d, !.tailBy = b[1].by]
    IN  SubSeq(a, 1, n - 1) \o << glued >> \o Tail(b)

\* a run that finds a signal whatever it reads
HasLearningsAlways(kind) == TRUE

\* JSON.parse succeeded and extractLearnings(transcript).length > 0
HasLearnings(kind) == kind = "signal"

ParseInput(p) ==
    /\ lpc[p] = "start"
    /\ lpc' = [lpc EXCEPT ![p] = IF HasLearnings(linput[p]) THEN "ensure" ELSE "done"]
    /\ UNCHANGED << wfVars, mergeVars, genVars, factVars, hookVars, docVars, cancelVars, completionVars, entryVars,
                    backupVars, verifyVars, manifestVars, renderVars,
                    ldir, lfile, lfileBefore, linput, lexisting, lwrote, loaderOut, loaderPc >>

\* ensureDirectory: mkdir when the directory is missing; an error ends the run
EnsureDirectory(p, fails) ==
    /\ lpc[p] = "ensure"
    /\ fails => ~ldir
    /\ ldir' = (ldir \/ ~fails)
    /\ lpc' = [lpc EXCEPT ![p] = IF fails THEN "done" ELSE "read"]
    /\ UNCHANGED << wfVars, mergeVars, genVars, factVars, hookVars, docVars, cancelVars, completionVars, entryVars,
                    backupVars, verifyVars, manifestVars, renderVars,
                    lfile, lfileBefore, linput, lexisting, lwrote, loaderOut, loaderPc >>

ReadExisting(p) ==
    /\ lpc[p] = "read"
    /\ lexisting' = [lexisting EXCEPT ![p] =
                        IF lfile.exists THEN lfile.lines ELSE DefaultPreamble]
    /\ lpc' = [lpc EXCEPT ![p] = "write"]
    /\ UNCHANGED << wfVars, mergeVars, genVars, factVars, hookVars, docVars, cancelVars, completionVars, entryVars,
                    backupVars, verifyVars, manifestVars, renderVars,
                    ldir, lfile, lfileBefore, linput, lwrote, loaderOut, loaderPc >>

\* fs.writeFileSync(LEARNINGS_FILE, updated + entry); an error ends the run
WriteLearnings(p, fails) ==
    /\ lpc[p] = "write"
    /\ lfile' = IF fails THEN lfile
                ELSE [exists |-> TRUE,
                      lines |-> Concat(pruneOldEntries(lexisting[p]), formatEntry(p))]
    /\ lwrote' = IF fails THEN lwrote ELSE lwrote \cup {p}
    /\ lpc' = [lpc EXCEPT ![p] = "done"]
    /\ UNCHANGED << wfVars, mergeVars, genVars, factVars, hookVars, docVars, cancelVars, completionVars, entryVars,
                    backupVars, verifyVars, manifestVars, renderVars,
                    ldir, lfileBefore, linput, lexisting, loaderOut, loaderPc >>

InputKinds == {"invalid-json", "no-signal", "signal"}

\* learnings.md as one run of the hook may find it
LearningsFiles(n) ==
    {NoLearnings} \cup { [exists |-> TRUE, lines |-> ls] : ls \in LearningsUpTo(n) }

InitSessionEnd ==
    /\ pc = "idle"
    /\ mode = "both"
    /\ update = FALSE
    /\ stateWritable = TRUE
    /\ cur = 1
    /\ running = {}
    /\ executed = << >>
    /\ disk = Truncated(0)
    /\ status = disk
    /\ envDone = FALSE
    /\ failedNow = {}
    /\ startStatus = disk
    /\ runs = 0
    /\ faults = 0
    /\ reports = << >>
    /\ prev = NoRun
    /\ fileExists = FALSE
    /\ file = << >>
    /\ newContent = << >>
    /\ existingExists = FALSE
    /\ existing = << >>
    /\ firstOutput = << >>
    /\ merges = 0
    /\ mergeOk = TRUE
    /\ warnings = {}
    /\ GenIdle
    /\ FactIdle
    /\ HookIdle
    /\ DocIdle
    /\ CancelIdle
    /\ CompletionRecorded
    /\ EntryIdle
    /\ BackupIdle
    /\ ManifestIdle
    /\ RenderIdle
    /\ VerifyIdle
    /\ lfile \in LearningsFiles(MaxLearningsLines)
    /\ ldir \in BOOLEAN
    /\ lfile.exists => ldir
    /\ lfileBefore = lfile
    /\ \E k \in InputKinds : linput = [ p \in Procs |-> k ]
    /\ lpc = [ p \in Procs |-> IF p = 1 THEN "start" ELSE "off" ]
    /\ lexisting = [ p \in Procs |-> << >> ]
    /\ lwrote = {}
    /\ loaderOut = << >>
    /\ loaderPc = "off"

NextSessionEnd ==
    \/ \E p \in Procs : ParseInput(p)
    \/ \E p \in Procs, fails \in BOOLEAN : EnsureDirectory(p, fails)
    \/ \E p \in Procs : ReadExisting(p)
    \/ \E p \in Procs, fails \in BOOLEAN : WriteLearnings(p, fails)

\* one run of the session-end hook
SpecSessionEnd == InitSessionEnd /\ [][NextSessionEnd]_vars

InitOverlap ==
    /\ pc = "idle"
    /\ mode = "both"
    /\ update = FALSE
    /\ stateWritable = TRUE
    /\ cur = 1
    /\ running = {}
    /\ executed = << >>
    /\ disk = Truncated(0)
    /\ status = disk
    /\ envDone = FALSE
    /\ failedNow = {}
    /\ startStatus = disk
    /\ runs = 0
    /\ faults = 0
    /\ reports = << >>
    /\ prev = NoRun
    /\ fileExists = FALSE
    /\ file = << >>
    /\ newContent = << >>
    /\ existingExists = FALSE
    /\ existing = << >>
    /\ firstOutput = << >>
    /\ merges = 0
    /\ mergeOk = TRUE
    /\ warnings = {}
    /\ GenIdle
    /\ FactIdle
    /\ HookIdle
    /\ DocIdle
    /\ CancelIdle
    /\ CompletionRecorded
    /\ EntryIdle
    /\ BackupIdle
    /\ ManifestIdle
    /\ RenderIdle
    /\ VerifyIdle
    /\ lfile \in LearningsFiles(MaxOverlapLines)
    /\ ldir \in BOOLEAN
    /\ lfile.exists => ldir
    /\ lfileBefore = lfile
    /\ linput \in [ Procs -> InputKinds ]
    /\ lpc = [ p \in Procs |-> "start" ]
    /\ lexisting = [ p \in Procs |-> << >> ]
    /\ lwrote = {}
    /\ loaderOut = << >>
    /\ loaderPc = "off"

\* two runs of the session-end hook on the same project at the same time
SpecOverlap == InitOverlap /\ [][NextSessionEnd]_vars

\* line.startsWith('- ')
IsBullet(l) == l.k = "bullet"

RECURSIVE ParseFrom(_, _, _, _)
\* parseEntries from line i on: the dates of the entries pushed, in file order
ParseFrom(lines, i, currentDate, currentLines) ==
    LET pushed == IF currentDate # 0 /\ currentLines > 0 THEN << currentDate >> ELSE << >>
    IN  IF i > Len(lines)
        THEN pushed
        ELSE IF IsDateHeader(lines[i])
             THEN pushed \o ParseFrom(lines, i + 1, lines[i].d, 0)
             ELSE IF currentDate # 0 /\ IsBullet(lines[i])
                  THEN ParseFrom(lines, i + 1, currentDate, currentLines + 1)
                  ELSE ParseFrom(lines, i + 1, currentDate, currentLines)

parseEntries(lines) == ParseFrom(lines, 1, 0, 0)

\* entries.slice(-MAX_ENTRIES)
Slice(entries) ==
    IF Len(entries) <= MAX_ENTRIES
    THEN entries
    ELSE SubSeq(entries, Len(entries) - MAX_ENTRIES + 1, Len(entries))

\* the date of the i-th entry of a file of n entries with the dates 1..n:
\* oldest first or newest first, rotated by r
EntryDateAt(n, r, newestFirst, i) ==
    LET a == ((i - 1 + r) % n) + 1
    IN  IF newestFirst THEN n + 1 - a ELSE a

RECURSIVE EntriesFrom(_, _, _, _, _)
\* the lines of the entries i..n; the entry at position plain has no "- " line
EntriesFrom(n, r, newestFirst, plain, i) ==
    IF i > n THEN << >>
    ELSE << HeaderLine(EntryDateAt(n, r, newestFirst, i)),
            IF i = plain THEN TextLine ELSE BulletLine,
            BlankLine >>
         \o EntriesFrom(n, r, newestFirst, plain, i + 1)

\* learnings.md as the loader may find it: a title and up to MaxFileEntries
\* entries in the format of the documentation
LoaderFiles ==
    {NoLearnings} \cup
    { [exists |-> TRUE,
       lines |-> << TextLine, BlankLine >> \o EntriesFrom(n, r, nf, plain, 1) \o << BlankLine >>] :
         n \in 0..MaxFileEntries, r \in 0..MaxFileEntries, nf \in BOOLEAN,
         plain \in 0..MaxFileEntries }

\* fs.existsSync(LEARNINGS_FILE)
LoaderStart ==
    /\ loaderPc = "start"
    /\ loaderPc' = IF lfile.exists THEN "read" ELSE "done"
    /\ UNCHANGED << wfVars, mergeVars, genVars, factVars, hookVars, docVars, cancelVars, completionVars, entryVars,
                    backupVars, verifyVars, manifestVars, renderVars,
                    ldir, lfile, lfileBefore, lpc, linput, lexisting, lwrote, loaderOut >>

\* read, parse and write the recent entries to stderr
LoaderOutput ==
    /\ loaderPc = "read"
    /\ loaderOut' = Slice(parseEntries(lfile.lines))
    /\ loaderPc' = "done"
    /\ UNCHANGED << wfVars, mergeVars, genVars, factVars, hookVars, docVars, cancelVars, completionVars, entryVars,
                    backupVars, verifyVars, manifestVars, renderVars,
                    ldir, lfile, lfileBefore, lpc, linput, lexisting, lwrote >>

InitLoader ==
    /\ pc = "idle"
    /\ mode = "both"
    /\ update = FALSE
    /\ stateWritable = TRUE
    /\ cur = 1
    /\ running = {}
    /\ executed = << >>
    /\ disk = Truncated(0)
    /\ status = disk
    /\ envDone = FALSE
    /\ failedNow = {}
    /\ startStatus = disk
    /\ runs = 0
    /\ faults = 0
    /\ reports = << >>
    /\ prev = NoRun
    /\ fileExists = FALSE
    /\ file = << >>
    /\ newContent = << >>
    /\ existingExists = FALSE
    /\ existing = << >>
    /\ firstOutput = << >>
    /\ merges = 0
    /\ mergeOk = TRUE
    /\ warnings = {}
    /\ GenIdle
    /\ FactIdle
    /\ HookIdle
    /\ DocIdle
    /\ CancelIdle
    /\ CompletionRecorded
    /\ EntryIdle
    /\ BackupIdle
    /\ ManifestIdle
    /\ RenderIdle
    /\ VerifyIdle
    /\ lfile \in LoaderFiles
    /\ ldir = lfile.exists
    /\ lfileBefore = lfile
    /\ linput = [ p \in Procs |-> "no-signal" ]
    /\ lpc = [ p \in Procs |-> "off" ]
    /\ lexisting = [ p \in Procs |-> << >> ]
    /\ lwrote = {}
    /\ loaderOut = << >>
    /\ loaderPc = "start"

NextLoader == LoaderStart \/ LoaderOutput

\* one run of the session-start loader
SpecLoader == InitLoader /\ [][NextLoader]_vars

(***************************************************************************)
(* The entry point: look for the two state files, take the mode of the     *)
(* decision matrix, run it.                                                *)
(***************************************************************************)
\* the environment state file as the entry point may find it
EnvStateFiles ==
    { [exists |-> FALSE, components |-> {}] } \cup
    { [exists |-> TRUE, components |-> c] : c \in SUBSET EnvSteps }

\* the project manifest as the entry point may find it: none, or one that
\* records the first n project steps
ProjManifests ==
    { [exists |-> FALSE, steps |-> 0] } \cup
    { [exists |-> TRUE, steps |-> n] : n \in 0..Cardinality(ProjectSteps) }

\* a matrix with the rows of the two single modes swapped
RecommendedModeSwapped(envDoneBefore, projDoneBefore) ==
    CASE ~envDoneBefore /\ ~projDoneBefore -> "both"
      [] ~envDoneBefore /\ projDoneBefore  -> "project"
      [] envDoneBefore /\ ~projDoneBefore  -> "environment"
      [] OTHER                             -> "verify"

\* the decision matrix
RecommendedMode(envDoneBefore, projDoneBefore) ==
    CASE ~envDoneBefore /\ ~projDoneBefore -> "both"
      [] ~envDoneBefore /\ projDoneBefore  -> "environment"
      [] envDoneBefore /\ ~projDoneBefore  -> "project"
      [] OTHER                             -> "verify"

\* Automatic Mode Detection: look for the two files, read the matrix
DetectMode ==
    /\ entryPc = "start"
    /\ detectedMode' = RecommendedMode(envStateFile.exists, projManifest.exists)
    /\ entryPc' = "detected"
    /\ UNCHANGED << wfVars, mergeVars, genVars, factVars, hookVars, docVars, cancelVars, completionVars,
                    learnVars, backupVars, verifyVars, manifestVars, renderVars,
                    envStateFile, projManifest, selectedMode >>

\* Begin, steps 2-4: select the appropriate mode and execute it
SelectMode ==
    /\ entryPc = "detected"
    /\ selectedMode' = detectedMode
    /\ entryPc' = "selected"
    /\ UNCHANGED << wfVars, mergeVars, genVars, factVars, hookVars, docVars, cancelVars, completionVars,
                    learnVars, backupVars, verifyVars, manifestVars, renderVars,
                    envStateFile, projManifest, detectedMode >>

InitEntry ==
    /\ pc = "idle"
    /\ mode = "both"
    /\ update = FALSE
    /\ stateWritable = TRUE
    /\ cur = 1
    /\ running = {}
    /\ executed = << >>
    /\ disk = Truncated(0)
    /\ status = disk
    /\ envDone = FALSE
    /\ failedNow = {}
    /\ startStatus = disk
    /\ runs = 0
    /\ faults = 0
    /\ reports = << >>
    /\ prev = NoRun
    /\ fileExists = FALSE
    /\ file = << >>
    /\ newContent = << >>
    /\ existingExists = FALSE
    /\ existing = << >>
    /\ firstOutput = << >>
    /\ merges = 0
    /\ mergeOk = TRUE
    /\ warnings = {}
    /\ GenIdle
    /\ FactIdle
    /\ HookIdle
    /\ DocIdle
    /\ CancelIdle
    /\ CompletionRecorded
    /\ BackupIdle
    /\ ManifestIdle
    /\ RenderIdle
    /\ VerifyIdle
    /\ LearnIdle
    /\ envStateFile \in EnvStateFiles
    /\ projManifest \in ProjManifests
    /\ detectedMode = "none"
    /\ selectedMode = "none"
    /\ entryPc = "start"

NextEntry == DetectMode \/ SelectMode

SpecEntry == InitEntry /\ [][NextEntry]_vars

\* the content the run of p started from
ContentBefore == IF lfileBefore.exists THEN lfileBefore.lines ELSE DefaultPreamble

\* line i belongs to an entry dated more than 30 days before today
InOldEntry(lines, i) ==
    \E j \in 1..i :
        /\ IsDateHeader(lines[j])
        /\ Today - lines[j].d > 30
        /\ \A k \in (j + 1)..i : ~IsDateHeader(lines[k])

RECURSIVE KeptFrom(_, _)
\* the preamble and the recent entries, in order
KeptFrom(lines, i) ==
    IF i > Len(lines) THEN << >>
    ELSE (IF InOldEntry(lines, i) THEN << >> ELSE << lines[i] >>) \o KeptFrom(lines, i + 1)

\* the lines a content ends with: what follows the last line break is a line
\* only when it is not empty
WholeLines(lines) ==
    IF lines # << >> /\ lines[Len(lines)] = BlankLine
    THEN SubSeq(lines, 1, Len(lines) - 1)
    ELSE lines

\* C34: once the session-end hook has rewritten learnings.md, the file is the
\* preamble and the entries dated at most 30 days ago, unchanged and in order,
\* followed by the new entry; every entry dated more than 30 days ago is gone
\* with all its lines up to the next date header.
C34_PrunedAndKept ==
    1 \in lwrote =>
        lfile.lines = WholeLines(KeptFrom(ContentBefore, 1)) \o formatEntry(1)







(***************************************************************************)
(* Helpers for the properties.                                             *)
(***************************************************************************)
Started == Range(executed)

\* step j of the run has been dealt with: its procedure ran to an end, or it
\* was skipped because it was already recorded as completed
Handled(j) ==
    \/ j \in Started /\ j \notin running
    \/ j \notin Started /\ startStatus[j] = "completed" /\ ~update

RunProgress ==
    \/ SkipCompleted
    \/ \E i \in 1..NumSteps : ExecuteStep(i)
    \/ SaveState
    \/ FinishRun

C2_Original ==
    \A i \in failedNow :
        ~Blocking(i) =>
            /\ status[i] = "failed"
            /\ disk[i] = "failed"
            /\ pc = "halted" => \E j \in failedNow : j > i /\ Blocking(j)
            /\ pc = "done" => \A j \in RunSteps(mode) : j > i => Handled(j)

(***************************************************************************)
(* C2 amended: when the procedure of a non-blocking step fails, the step   *)
(* is marked failed, the state file records it unless the state file       *)
(* cannot be written (then the run goes on without state tracking), the    *)
(* run proceeds to the next step, only a later blocking failure halts it,  *)
(* and a run that ends has dealt with every later step; in "both" mode the *)
(* project bootstrap still runs.                                           *)
(***************************************************************************)
C2_NonBlockingFailureContinues ==
    \A i \in failedNow :
        ~Blocking(i) =>
            /\ status[i] = "failed"
            /\ stateWritable => disk[i] = "failed"
            /\ cur > i
            /\ pc = "halted" => \E j \in failedNow : j > i /\ Blocking(j)
            /\ (pc = "running" /\ running = {}) => ENABLED RunProgress
            /\ pc = "done" => \A j \in RunSteps(mode) : j > i => Handled(j)

C2_Witness ==
    /\ pc = "done"
    /\ mode = "both"
    /\ \E i \in failedNow : i \in EnvSteps /\ disk[i] = "failed"
    /\ ProjectSteps \subseteq Started

C4_ResumeAfterK ==
    \A K \in 0..NumSteps :
        (pc # "idle" /\ ~update /\ startStatus = Truncated(K)) =>
            LET first == IF K + 1 > FirstStep(mode) THEN K + 1 ELSE FirstStep(mode)
                rest  == IF first > LastStep(mode) THEN 0 ELSE LastStep(mode) - first + 1
            IN  /\ Len(executed) <= rest
                /\ \A k \in 1..Len(executed) : executed[k] = first + k - 1
                /\ pc = "done" => Len(executed) = rest

C4_Witness ==
    /\ pc = "done"
    /\ ~update
    /\ mode = "both"
    /\ \E K \in 1..(NumSteps - 1) :
           startStatus = Truncated(K) /\ Len(executed) = NumSteps - K

RECURSIVE WithoutFrom(_, _, _, _)
WithoutFrom(doc, names, k, inside) ==
    IF k > Len(doc)
    THEN << >>
    ELSE IF inside
         THEN WithoutFrom(doc, names, k + 1, ~(doc[k][1] = "end" /\ doc[k][2] \in names))
         ELSE IF doc[k][1] = "start" /\ doc[k][2] \in names
              THEN WithoutFrom(doc, names, k + 1, TRUE)
              ELSE << doc[k] >> \o WithoutFrom(doc, names, k + 1, FALSE)

\* doc with the sections named in names (markers and content) taken out
Without(doc, names) == WithoutFrom(doc, names, 1, FALSE)

OnceIn(doc, n) ==
    /\ Cardinality(Positions(doc, <<"start", n>>)) = 1
    /\ Cardinality(Positions(doc, <<"end", n>>)) = 1

\* the text that precedes section n, sections left out
TextBefore(doc, n) == Without(SubSeq(doc, 1, StartOf(doc, n) - 1), RegionNames)

\* a generation has merged into an existing file that has user sections
MergedIntoRegions ==
    /\ merges >= 1
    /\ mergeOk
    /\ existingExists
    /\ WellFormed(existing)
    /\ MarkerNames(existing) # {}

(***************************************************************************)
(* C7: when the existing file and the generated content both have a        *)
(* well-formed section R, section R of the merged file holds exactly the   *)
(* existing file's content of R, whatever the template rendered for R.     *)
(***************************************************************************)
C7_RegionContentPreserved ==
    MergedIntoRegions =>
        \A n \in MarkerNames(existing) \cap MarkerNames(newContent) :
            /\ OnceIn(file, n)
            /\ RegionContent(file, n) = RegionContent(existing, n)

C7_Witness ==
    /\ MergedIntoRegions
    /\ \E n \in MarkerNames(existing) \cap MarkerNames(newContent) :
           /\ RegionContent(existing, n) # << >>
           /\ RegionContent(newContent, n) # << >>
           /\ RegionContent(existing, n) # RegionContent(newContent, n)
           /\ RegionContent(file, n) = RegionContent(existing, n)

(***************************************************************************)
(* C8: after a successful merge into an existing file with user sections,  *)
(* every section name of the existing file occurs exactly once in the      *)
(* merged file with its content unchanged, in place when the generated     *)
(* content has that section, at the end with a warning when it has not;    *)
(* sections only the generated content has stay as the template wrote them.*)
(***************************************************************************)
C8_EveryUserRegionOnce ==
    MergedIntoRegions =>
        /\ \A n \in MarkerNames(existing) :
               /\ OnceIn(file, n)
               /\ RegionContent(file, n) = RegionContent(existing, n)
               /\ IF n \in MarkerNames(newContent)
                  THEN TextBefore(file, n) = TextBefore(newContent, n)
                  ELSE LET tail == SubSeq(file, StartOf(file, n), Len(file))
                       IN  /\ n \in warnings
                           /\ Without(tail, RegionNames) = << >>
                           /\ MarkerNames(tail) \cap MarkerNames(newContent) = {}
        /\ \A n \in MarkerNames(newContent) \ MarkerNames(existing) :
               /\ OnceIn(file, n)
               /\ RegionContent(file, n) = RegionContent(newContent, n)
               /\ TextBefore(file, n) = TextBefore(newContent, n)
        /\ WellFormed(file)

C8_Witness ==
    /\ MergedIntoRegions
    /\ MarkerNames(existing) \cap MarkerNames(newContent) # {}
    /\ \E n \in MarkerNames(existing) \ MarkerNames(newContent) :
           /\ n \in warnings
           /\ RegionContent(file, n) # << >>
    /\ Without(newContent, RegionNames) # << >>

C10_MergeIdempotent ==
    (merges = 2 /\ mergeOk) => file = firstOutput

C10_Witness ==
    /\ merges = 2
    /\ mergeOk
    /\ existingExists
    /\ OrphanNames(existing, newContent) # {}
    /\ MarkerNames(existing) \cap MarkerNames(newContent) # {}
    /\ file = firstOutput
    /\ file # newContent

GenEnded == GenStep \in Started /\ GenStep \notin running

\* destination file f had broken markers when the step found it
Malformed(f) == destBefore[f].exists /\ ~WellFormed(destBefore[f].content)

Discovered == detIdx > NumDetectors

\* the sources that yield a value for key k
Producers(k) == { d \in 1..NumDetectors : k \in DetKeys(d) /\ results[d] \in Values }

ConfidenceRank(c) ==
    CASE c = "high" -> 3 [] c = "medium" -> 2 [] c = "low" -> 1 [] OTHER -> 0

\* the source with the highest confidence, the first checked among equals
MostConfident(k) ==
    CHOOSE d \in Producers(k) :
        \A e \in Producers(k) :
            \/ ConfidenceRank(DetConfidence(d)) > ConfidenceRank(DetConfidence(e))
            \/ ConfidenceRank(DetConfidence(d)) = ConfidenceRank(DetConfidence(e)) /\ d <= e

FirstChecked(k) == CHOOSE d \in Producers(k) : \A e \in Producers(k) : d <= e

FactOf(d) == [value |-> results[d], confidence |-> DetConfidence(d), source |-> d]

(***************************************************************************)
(* C13 as stated: for every key that two or more sources yield, the        *)
(* analysis holds the value of the source with the highest confidence,     *)
(* and of the first checked among sources of equal confidence.             *)
(***************************************************************************)
C13_Original ==
    Discovered =>
        \A k \in FactKeys :
            Cardinality(Producers(k)) >= 2 => store[k] = FactOf(MostConfident(k))

(***************************************************************************)
(* C13 amended: for every key that two or more sources yield, the analysis *)
(* holds the value of the source checked first, with that source's         *)
(* confidence.  That is the most confident source, and the first among     *)
(* equals, except for the project purpose when README.md (medium, checked  *)
(* first) and a project file's description field (high) both yield one:    *)
(* then the README value is kept.                                          *)
(***************************************************************************)
C13_FirstSourceWins ==
    Discovered =>
        \A k \in FactKeys :
            Cardinality(Producers(k)) >= 2 =>
                /\ store[k] = FactOf(FirstChecked(k))
                /\ \/ FirstChecked(k) = MostConfident(k)
                   \/ k = "project_purpose" /\ Detectors[FirstChecked(k)] = "README.md"
                /\ \A d \in Producers(k) :
                       DetConfidence(d) = store[k].confidence => store[k].source <= d

C13_Witness ==
    /\ Discovered
    /\ results[1] = "v1"
    /\ results[2] = "v2"
    /\ results[3] = "v1"
    /\ store["project_purpose"] = [value |-> "v1", confidence |-> "medium", source |-> 1]
    /\ store["commands.test"] = [value |-> "v2", confidence |-> "high", source |-> 2]

(***************************************************************************)
(* C14 as stated: the analysis creates, modifies or deletes nothing under  *)
(* the target project.                                                     *)
(***************************************************************************)
C14_Original == tree = treeBefore

(***************************************************************************)
(* C14 amended: whatever the discovery sources yield, the analysis         *)
(* creates, modifies or deletes nothing under the target project except    *)
(* its own bootstrap directory (.claude-bootstrap, or .claude/bootstrap    *)
(* when that cannot be created) and the analysis.json and manifest.json    *)
(* inside it.                                                              *)
(***************************************************************************)
C14_OnlyBootstrapDirectoryWritten ==
    \A p \in Paths :
        tree[p] # treeBefore[p] =>
            /\ bootDir \in Range(BootDirs)
            /\ p[1] = bootDir
            /\ p[2] \in BootNames
            /\ tree[p] = "written"

C14_Witness ==
    /\ detIdx = NumDetectors + 2
    /\ \E d \in 1..NumDetectors : results[d] = "error"
    /\ \E d \in 1..NumDetectors : results[d] \in Values
    /\ treeBefore[<<bootDir, "">>] = "absent"
    /\ \A n \in BootNames : tree[<<bootDir, n>>] = "written"
    /\ \A p \in Paths : p[1] = "." => tree[p] = treeBefore[p]

\* the discovery sources that fail
Errs == { d \in 1..NumDetectors : results[d] = "error" }

AnalyzeEnded == AnalyzeStep \in Started /\ AnalyzeStep \notin running

VerifyStep == NumSteps

\* the files of the target project and the generated files
ProjectFiles == << fileExists, file, dest, tree >>

SecondFullRun ==
    /\ pc \in {"running", "halted", "done"}
    /\ mode = "both"
    /\ ~update
    /\ prev

AllCompleted(st) == \A i \in 1..NumSteps : st[i] = "completed"

(***************************************************************************)
(* C18 as stated: a second run of the full workflow executes no step,      *)
(* leaves the recorded state as it is and reports every step as completed. *)
(***************************************************************************)
C18_Original ==
    SecondFullRun =>
        /\ executed = << >>
        /\ status = startStatus
        /\ disk = startStatus
        /\ pc = "done" => AllCompleted(status)

(***************************************************************************)
(* C18 amended: a second run of the full workflow executes exactly the     *)
(* steps the first run did not record as completed (failed and skipped     *)
(* steps are tried again, as are environment steps whose result could not  *)
(* be written).  When the first run recorded every step as completed, the  *)
(* second run executes no step, changes neither the recorded state nor any *)
(* generated file, and ends with every step completed.                     *)
(***************************************************************************)
C18_SecondRunSkipsCompleted ==
    SecondFullRun =>
        /\ \A i \in Started : startStatus[i] # "completed"
        /\ pc = "done" => \A i \in 1..NumSteps : startStatus[i] # "completed" => i \in Started
        /\ AllCompleted(startStatus) =>
               /\ executed = << >>
               /\ status = startStatus
               /\ disk = startStatus
               /\ pc # "halted"
               /\ pc = "done" => AllCompleted(status)

C18_Witness ==
    /\ SecondFullRun
    /\ pc = "done"
    /\ AllCompleted(startStatus)
    /\ executed = << >>
    /\ AllCompleted(disk)

\* a run of the workflow without an update request
PlainRun == pc \in {"running", "halted", "done"} /\ ~update

HasEnvironmentPhase == mode \in {"environment", "both"}

(***************************************************************************)
(* C19 as stated: a run without an update request that starts from a state *)
(* in which every step is completed or skipped executes no step, changes   *)
(* no step status and reports that the work is already finished.           *)
(***************************************************************************)
C19_Original ==
    (PlainRun /\ \A i \in RunSteps(mode) : startStatus[i] \in {"completed", "skipped"}) =>
        /\ executed = << >>
        /\ status = startStatus
        /\ pc = "done" => \E n \in 1..Len(reports) : reports[n].kind = "already-complete"

(***************************************************************************)
(* C19 amended: a run without an update request that starts from a state   *)
(* in which every step of its mode is completed executes no step and       *)
(* changes no step status; the environment setup then reports that it is   *)
(* already complete, and it reports so only when every environment step    *)
(* was completed.  A step recorded as skipped is attempted again.          *)
(***************************************************************************)
C19_CompletedRunIsNoOp ==
    PlainRun =>
        /\ (\A i \in RunSteps(mode) : startStatus[i] = "completed") =>
               /\ executed = << >>
               /\ status = startStatus
               /\ pc # "halted"
               /\ (pc = "done" /\ HasEnvironmentPhase) =>
                      reports[1].kind = "already-complete"
        /\ (HasEnvironmentPhase /\ envDone) =>
               (reports[1].kind = "already-complete"
                   <=> \A i \in EnvSteps : startStatus[i] = "completed")
        /\ pc = "done" =>
               \A i \in RunSteps(mode) : startStatus[i] = "skipped" => i \in Started

C19_Witness ==
    /\ PlainRun
    /\ pc = "done"
    /\ mode = "environment"
    /\ \A i \in EnvSteps : startStatus[i] = "completed"
    /\ executed = << >>
    /\ status = startStatus
    /\ reports = << [kind |-> "already-complete", about |-> EnvSteps] >>

\* the run has come to its end
RunEnded == pc \in {"done", "halted"}

LastReport == reports[Len(reports)]

C20_ReportsOfARun ==
    /\ pc = "done" =>
            /\ Len(reports) = (IF mode = "both" THEN 2 ELSE 1)
            /\ LastReport.about = RunSteps(mode)
            /\ LastReport.kind # "failure"
            /\ mode = "both" => reports[1].about = EnvSteps
    /\ pc = "halted" =>
            /\ Len(reports) = (IF envDone THEN 2 ELSE 1)
            /\ LastReport.kind = "failure"
            /\ LastReport.about \subseteq failedNow
            /\ \E i \in LastReport.about : Blocking(i)
    /\ pc = "running" => Len(reports) = (IF envDone THEN 1 ELSE 0)

C21_PassesInputThroughOnce ==
    /\ hpc = "reading" => stdout = << >>
    /\ hpc = "returned" =>
          /\ Len(stdout) = 1
          /\ stdout[1] = stdinBytes \o << "0A" >>

\* a documentation procedure has been executed
DocStepDone == docStep # "none"

\* file f was there when the last procedure began
Existed(f) == docsBefore[f].exists

\* s is a prefix of t
IsPrefix(s, t) == Len(s) <= Len(t) /\ SubSeq(t, 1, Len(s)) = s

HaltedAt(K) == [ Truncated(K - 1) EXCEPT ![K] = "failed" ]

(***************************************************************************)
(* C23: a run (no update pass) that starts from a manifest in which steps  *)
(* 1..K-1 are completed and the blocking step K is failed executes step K  *)
(* first, executes no step before K and, when K succeeds, continues with   *)
(* the steps K+1..N in declared order, all of them when the run ends       *)
(* without a halt.                                                         *)
(***************************************************************************)
C23_FailedStepRetriedFirst ==
    \A K \in { i \in 1..NumSteps : Blocking(i) } :
        (pc \in {"running", "halted", "done"} /\ ~update /\ startStatus = HaltedAt(K)) =>
            /\ \A k \in 1..Len(executed) : executed[k] = K + k - 1
            /\ Len(executed) >= 2 => status[K] \in {"completed", "skipped"}
            /\ (pc = "done" /\ K \in RunSteps(mode)) => Len(executed) = NumSteps - K + 1
            /\ (pc = "halted") => Len(executed) >= 1

C23_Witness ==
    /\ pc = "done"
    /\ ~update
    /\ mode = "both"
    /\ startStatus = HaltedAt(5)
    /\ status[5] = "completed"
    /\ executed = << 5, 6, 7, 8 >>

\* the first step of the run's mode that satisfies P, or 0
FirstWhere(P(_)) ==
    IF \E i \in RunSteps(mode) : P(i)
    THEN CHOOSE i \in RunSteps(mode) : P(i) /\ \A j \in RunSteps(mode) : P(j) => i <= j
    ELSE 0

StartedPending(i) == startStatus[i] = "pending"

StartedNotCompleted(i) == startStatus[i] # "completed"

\* a run, not an update pass, that was started after a cancelled run
ResumedRun == resumed /\ ~update /\ pc \in {"running", "halted", "done", "cancelled"}

UpdatePass ==
    /\ pc \in {"running", "halted", "done"}
    /\ update
    /\ \A i \in 1..NumSteps : startStatus[i] \in {"completed", "skipped"}

\* position of step i in the steps started by the run, or 0
StartPos(i) == IF i \in Started THEN CHOOSE k \in 1..Len(executed) : executed[k] = i ELSE 0

NotPersisted ==
    IF manifest.readable THEN { i \in finished : manifest.st[i] # "completed" }
    ELSE finished

(***************************************************************************)
(* C26 as stated: whenever the process is interrupted, the manifest on     *)
(* disk is a complete version, the previous or the new one, never a        *)
(* partial one, and the next run re-executes at most one step.             *)
(***************************************************************************)
C26_Original ==
    /\ manifest.readable
    /\ mpc = "interrupted" => Cardinality(NotPersisted) <= 1
    /\ Cardinality(reexecuted) <= 1

(***************************************************************************)
(* C26 amended: the manifest on disk is a complete version, the previous   *)
(* or the new one, unless the process was interrupted while the file was   *)
(* being written, which may leave it corrupted.  While it is complete it   *)
(* records only steps that ran to their end and lacks at most the one step *)
(* whose transition was not yet persisted, and the next run re-executes at *)
(* most that step.  A corrupted manifest is deleted and the bootstrap run  *)
(* again from the beginning, every step that had been done included.       *)
(***************************************************************************)
C26_ManifestAfterInterrupt ==
    /\ ~manifest.readable => mpc = "interrupted"
    /\ manifest.readable =>
          /\ \A i \in ProjectSteps : manifest.st[i] = "completed" => i \in finished
          /\ Cardinality(NotPersisted) <= 1
    /\ ~fromCorrupted => Cardinality(reexecuted) <= 1
    /\ (fromCorrupted /\ mpc = "finished") => reexecuted = prevFinished

C26_Witness ==
    /\ mpc = "finished"
    /\ mruns = 3
    /\ ~fromCorrupted
    /\ Cardinality(reexecuted) = 1
    /\ Cardinality(prevFinished) >= 3
    /\ manifest = Complete([ i \in ProjectSteps |-> "completed" ])

\* the workers of the analysis are still running
DetectorsAtWork == AnalyzeStep \in running /\ detDone # 1..NumDetectors

\* what the merge of file f yields from the file as the step found it
MergedAlone(f) == Merge(destBefore[f].exists, destBefore[f].content, rendered[f])

C28_FactsNeverChange ==
    [][ \A k \in FactKeys : store[k] # NoFact => store'[k] = store[k] ]_vars

\* package.json gave the project purpose with high confidence; inference, checked
\* later with low confidence, yielded another value, and the first one is kept
C28_Witness ==
    /\ detIdx = 5
    /\ results[1] = "none"
    /\ results[2] = "v1"
    /\ results[3] = "none"
    /\ results[4] = "v2"
    /\ store["project_purpose"] = [value |-> "v1", confidence |-> "high", source |-> 2]

\* the template has been customized
Customized == rpc \in {"customized", "logged"}

\* the block token p stands in: its {{#if}} tag
BlockOf(p) == CHOOSE i \in 1..(p - 1) : tmpl[i].t = "if" /\ \A j \in (i + 1)..(p - 1) : tmpl[j].t # "if"

InBlock(p) == tmpl[p].t \in {"text", "var"} /\ OpenBlocks(tmpl, p) = 1

InElseBranch(p) == InBlock(p) /\ \E e \in (BlockOf(p) + 1)..(p - 1) : tmpl[e].t = "else"

\* the value the block of token p refers to is determined and not false
ConditionHolds(p) ==
    LET v == analysis[tmpl[BlockOf(p)].k] IN v # "null" /\ v # "false"

\* token p is text or a placeholder of the selected branch or outside all blocks
Included(p) ==
    /\ tmpl[p].t \in {"text", "var"}
    /\ InBlock(p) => (ConditionHolds(p) <=> ~InElseBranch(p))

\* where the content holds what token p yields
PositionOf(p) == Cardinality({ q \in 1..p : Included(q) })

(***************************************************************************)
(* C29: for every conditional block the customized content holds the text  *)
(* of the if-branch when the value referred to is truthy, and the text of  *)
(* the else-branch, nothing when there is none, when it is false or not    *)
(* determined; text outside the blocks is kept in place and no template    *)
(* tag remains in the content.                                             *)
(***************************************************************************)
C29_SelectedBranchOnly ==
    Customized =>
        /\ Len(claudeMd) = PositionOf(Len(tmpl))
        /\ \A p \in 1..Len(tmpl) :
               (Included(p) /\ tmpl[p].t = "text") => claudeMd[PositionOf(p)] = tmpl[p].k
        /\ \A n \in 1..Len(claudeMd) : claudeMd[n] \notin TemplateTags

\* a block with both branches whose value was not determined: only the text of
\* the else-branch is in the content
C29_Witness ==
    /\ Customized
    /\ tmpl = << If("commands.test"), Text("a"), Else, Text("b"), EndIf >>
    /\ analysis["commands.test"] = "null"
    /\ claudeMd = << "b" >>

\* the log summary marks key k as a placeholder
Flagged(k) == k \in DOMAIN logSummary /\ logSummary[k] = "placeholder"

(***************************************************************************)
(* C30 as stated: every placeholder that is part of the content is         *)
(* replaced by its value when the value is determined, and otherwise by a  *)
(* marker together with a recorded warning for its key.                    *)
(***************************************************************************)
C30_Original ==
    rpc = "logged" =>
        /\ Len(claudeMd) = PositionOf(Len(tmpl))
        /\ \A p \in 1..Len(tmpl) :
               (Included(p) /\ tmpl[p].t = "var") =>
                   LET v == analysis[tmpl[p].k]
                   IN  IF v # "null"
                       THEN claudeMd[PositionOf(p)] = v
                       ELSE /\ claudeMd[PositionOf(p)] = PlaceholderComment
                            /\ Flagged(tmpl[p].k)

(***************************************************************************)
(* C30 amended: every placeholder that is part of the content is replaced  *)
(* by its value when the value is determined, and otherwise by a           *)
(* placeholder comment; the log summary records for each command whether   *)
(* it was detected or is a placeholder, and records nothing for any other  *)
(* key.  The content is produced whatever values are missing.              *)
(***************************************************************************)
C30_PlaceholdersReplaced ==
    /\ Customized =>
           /\ Len(claudeMd) = PositionOf(Len(tmpl))
           /\ \A p \in 1..Len(tmpl) :
                  (Included(p) /\ tmpl[p].t = "var") =>
                      LET v == analysis[tmpl[p].k]
                      IN  claudeMd[PositionOf(p)] = IF v # "null" THEN v ELSE PlaceholderComment
    /\ rpc = "logged" =>
           /\ DOMAIN logSummary = CommandKeys
           /\ \A k \in CommandKeys : Flagged(k) <=> analysis[k] = "null"

\* the test command was not determined and the project purpose was: a placeholder
\* comment and the value stand in the content, the log marks the command
C30_Witness ==
    /\ rpc = "logged"
    /\ tmpl = << Text("a"), Placeholder("commands.test"), Placeholder("project_purpose") >>
    /\ analysis["commands.test"] = "null"
    /\ analysis["project_purpose"] = "run-tests"
    /\ claudeMd = << "a", PlaceholderComment, "run-tests" >>
    /\ Flagged("commands.test")

\* the verification has recorded that everything is in order
VerificationPassed == vresult.files_created = "true" /\ vresult.claude_md_valid = "true"

\* the report lists a failed check about file f
Listed(f) == \E c \in vreport : c[2] = f

C32_EnhanceNeverCreatesClaudeDocs ==
    docStep = "enhance_existing" =>
        \A f \in DocFiles :
            f[1] = NewDocsDir => (docs[f].exists => docsBefore[f].exists)

(***************************************************************************)
(* C33: whenever a step changes the content of an existing CLAUDE.md,      *)
(* CLAUDE.md.backup already holds the content the file has at that moment, *)
(* and the write leaves the backup as it is.                               *)
(***************************************************************************)
C33_BackupBeforeReplace ==
    [][ (fileExists /\ file' # file) =>
            /\ backup.exists
            /\ backup.content = file
            /\ backup' = backup ]_vars

\* an existing CLAUDE.md has been replaced and the backup holds what it was
C33_Witness ==
    /\ merges = 1
    /\ existingExists
    /\ mergeOk
    /\ file # existing
    /\ backup = [exists |-> TRUE, content |-> existing]

TypeOK ==
    /\ pc \in {"idle", "running", "halted", "done", "verified", "cancelled"}
    /\ mode \in Modes \cup {"verify"}
    /\ cur \in 1..(NumSteps + 1)
    /\ running \subseteq 1..NumSteps
    /\ status \in [1..NumSteps -> Status]
    /\ disk \in [1..NumSteps -> Status]
\* C37: a run of the session-end hook whose input is not valid JSON or carries
\* no learning signal creates no directory and leaves learnings.md as it is.
C37_NoSignalNoWrite ==
    [][ (\A p \in Procs : lpc[p] # "off" => linput[p] # "signal")
            => ldir' = ldir /\ lfile' = lfile ]_vars

\* a run on invalid JSON has ended where neither the directory nor the file exists
C37_Witness ==
    /\ lpc[1] = "done"
    /\ linput[1] = "invalid-json"
    /\ ~ldir
    /\ ~lfile.exists

\* the header the run of p wrote is in the content, on a line of its own or
\* at the end of another line
HasEntryOf(lines, p) ==
    \E i \in 1..Len(lines) :
        \/ lines[i].k = "header" /\ lines[i].by = p
        \/ lines[i].tailBy = p

\* the entries of a content that were there before the runs and are dated at
\* most 30 days ago
RecentEntries(lines) ==
    { i \in 1..Len(lines) :
        /\ IsDateHeader(lines[i])
        /\ lines[i].by = 0
        /\ Today - lines[i].d <= 30 }

\* C36: when two overlapping runs of the session-end hook have both detected a
\* signal and written, learnings.md holds the new entry of each of them and
\* every earlier entry that is not older than 30 days.
C36_BothEntriesKept ==
    lwrote = Procs =>
        /\ \A p \in Procs : HasEntryOf(lfile.lines, p)
        /\ Cardinality(RecentEntries(lfile.lines)) = Cardinality(RecentEntries(ContentBefore))

\* the dates of the entries of a content
DatesIn(lines) == { lines[i].d : i \in { j \in 1..Len(lines) : IsDateHeader(lines[j]) } }

\* the 10 most recent of a set of dates, all of them when there are 10 or fewer
MostRecent(dates) == { d \in dates : Cardinality({ e \in dates : e > d }) < 10 }

\* C35: the session-start loader outputs at most 10 entries, and they are the
\* 10 most recent entries of learnings.md, all entries when the file has 10 or
\* fewer, whatever the order of the entries in the file.
C35_TenMostRecent ==
    (loaderPc = "done" /\ lfile.exists) =>
        /\ Len(loaderOut) <= 10
        /\ { loaderOut[i] : i \in 1..Len(loaderOut) } = MostRecent(DatesIn(lfile.lines))

\* the discovery step of this run has started and ended
DiscoveryEnded == AnalyzeStep \in Range(executed) /\ AnalyzeStep \notin running

\* a step after the discovery has started in this run
GenerationStarted == \E i \in (AnalyzeStep + 1)..NumSteps : i \in Range(executed)

\* C38: once the discovery step has ended no step adds, removes or changes a
\* fact, and from the start of the first generation step on the Fact Store is
\* the same for every step that reads it.
C38_StoreReadOnlyAfterDiscovery ==
    [][ (DiscoveryEnded \/ GenerationStarted) => store' = store ]_vars

\* discovery stored a fact, the generation step that followed has merged its
\* files and ended, and the fact is as discovery left it
C38_Witness ==
    /\ DiscoveryEnded
    /\ GenStep \in Range(executed)
    /\ GenStep \notin running
    /\ status[GenStep] = "completed"
    /\ results[1] = "v1"
    /\ store["project_purpose"] = FactOf(1)

====
